---- MODULE Spec2Model ----
(***************************************************************************)
(* The video job pipeline of 2Reelify: createVideoJob / runPipeline and    *)
(* its stages (src/lib/video/orchestrator.ts), the job store               *)
(* (src/lib/video/store.ts), the clip generator's duration handling        *)
(* (src/lib/ai-services.ts) and the cancel action                          *)
(* (src/app/actions/video-actions.ts).                                     *)
(*                                                                         *)
(* One job is modelled: jobs share no state.  Every await of the code is   *)
(* one action, so the cancel action can interleave exactly where the code  *)
(* can be suspended.  Numbers of seconds are kept in tenths of a second.   *)
(***************************************************************************)
EXTENDS Integers, Sequences, FiniteSets, TLC

\* ------------------------------------------------------------- bounds
\* the largest number of sections a plan response carries
MaxSections == 2
\* the largest number of sections of a job handed to the clip stage alone
MaxClipSections == 2
\* how often the clip stage is run on the same job (resume)
MaxRuns == 2
\* the largest number of sections of a job handed to the voiceover stage alone
MaxSpoken == 1
\* the largest number of entries of a draft, script or prompt response handed
\* to the text stages alone
MaxEntries == 2

\* ------------------------------------------------------------- values
\* a field that is absent (undefined / null / deleted)
Undef == "undefined"
\* an absent number and a present one
None == <<>>
Some(n) == <<n>>

\* no row in video_jobs
NoRow == [status |-> "no_row"]
\* no exception in flight
NoErr == [msg |-> Undef, isErr |-> FALSE]
\* an Error instance with a message
Err(m) == [msg |-> m, isErr |-> TRUE]
\* what the store client hands back in `error`: an object with a message that
\* is an Error instance or not, as the client library builds it
StoreErrors == {[msg |-> "store_error", isErr |-> b] : b \in BOOLEAN}

\* the targetSeconds a plan response gives its i-th item (tenths of a
\* second): none at all, or a different number on each item
PlanTargets == {[i \in 1..4 |-> None], [i \in 1..4 |-> Some(20 + 20 * i)]}
\* target_seconds values of a job handed to the clip stage alone: missing,
\* negative, zero, below 2 s, fractional, above the 7.56 s of 121 frames,
\* above 12 s, very large
TargetValues == {None, Some(-30), Some(0), Some(19), Some(55), Some(77), Some(121), Some(1000000)}

Min(a, b) == IF a < b THEN a ELSE b
Max(a, b) == IF a > b THEN a ELSE b

\* ------------------------------------------------------------- the job
\* a createVideoJob that stores the job as queued
NewJobQueued ==
  [status |-> "queued", idea |-> "idea", sections |-> <<>>, error |-> Undef,
   voiceover_url |-> Undef, voice_id |-> Undef, captions |-> Undef,
   video_url |-> Undef, video_model |-> Undef]

\* the job object createVideoJob builds
NewJob ==
  [status |-> "planning", idea |-> "idea", sections |-> <<>>, error |-> Undef,
   voiceover_url |-> Undef, voice_id |-> Undef, captions |-> Undef,
   video_url |-> Undef, video_model |-> Undef]

\* a section as plan() builds it
PlannedSection(id, t) ==
  [id |-> id, title |-> "planned", objective |-> "objective",
   target_seconds |-> t, draft_narration |-> Undef, draft_visual |-> Undef,
   script |-> Undef, shot_prompt |-> Undef,
   clip_id |-> Undef, clip_url |-> Undef, clip_error |-> Undef]

\* the section script() and prompts() make up when the job has none
FallbackSection(id) ==
  [PlannedSection(id, Some(60)) EXCEPT
     !.title = "Intro", !.objective = "Fallback autogenerated because planning failed"]

\* a sections value that is not a list (null, an object, a string)
Malformed == <<[malformed |-> TRUE]>>

\* normalizeJob: a sections value that is not an array becomes []
NormalizeJob(j) == IF j.sections = Malformed THEN [j EXCEPT !.sections = <<>>] ELSE j

\* the stages runPipeline calls normalizeJob before (at their first step);
\* plan comes after the normalizeJob that follows getJob
NormalizedBefore == {"draft_status", "script_status", "prompts_status", "clips_status"}

\* the row after update(patch): the patched columns replaced
Patched(row, patch) ==
  [f \in DOMAIN row |-> IF f \in DOMAIN patch THEN patch[f] ELSE row[f]]

\* the pipeline's statuses in the order runPipeline goes through them
PipelineOrder ==
  <<"planning", "drafting", "scripting", "prompting", "generating_clips",
    "voiceover", "captions", "stitching", "complete">>

\* stages whose script and prompts statuses are exchanged
StatusOfExchanged(stage) ==
  CASE stage = "plan" -> "planning"
    [] stage = "draft" -> "drafting"
    [] stage = "script" -> "prompting"
    [] stage = "prompts" -> "scripting"
    [] stage = "generateClips" -> "generating_clips"
    [] stage = "generateVoiceover" -> "voiceover"
    [] stage = "generateCaptions" -> "captions"
    [] stage = "stitch" -> "stitching"

\* a voiceover stage that persists the status of an earlier stage
StatusOfStale(stage) ==
  CASE stage = "plan" -> "planning"
    [] stage = "draft" -> "drafting"
    [] stage = "script" -> "scripting"
    [] stage = "prompts" -> "prompting"
    [] stage = "generateClips" -> "generating_clips"
    [] stage = "generateVoiceover" -> "prompting"
    [] stage = "generateCaptions" -> "captions"
    [] stage = "stitch" -> "stitching"

\* the status each stage function persists first
StatusOf(stage) ==
  CASE stage = "plan" -> "planning"
    [] stage = "draft" -> "drafting"
    [] stage = "script" -> "scripting"
    [] stage = "prompts" -> "prompting"
    [] stage = "generateClips" -> "generating_clips"
    [] stage = "generateVoiceover" -> "voiceover"
    [] stage = "generateCaptions" -> "captions"
    [] stage = "stitch" -> "stitching"

\* the message runPipeline's catch persists: e?.message || "Pipeline failed"
PipelineErrorMessage(e) ==
  IF e.msg = Undef \/ e.msg = "" THEN "Pipeline failed" ELSE e.msg

\* the message the timer callback's catch persists:
\* err instanceof Error ? err.message : "Unknown error"
CallbackErrorMessage(e) ==
  IF e.isErr THEN e.msg ELSE "Unknown error"

\* cancelVideoJobAction refuses a job that has finished
CancelRefused(status) == status \in {"complete", "error", "cancelled"}

VARIABLES
  db,          \* the job's row in video_jobs, or NoRow
  cpc,         \* createVideoJob: "start", "inserted", "returned", "raised"
  returned,    \* the job createVideoJob returned, or NoRow
  timer,       \* the setTimeout callback: "unset", "armed", "fired"
  pc,          \* the pipeline task's position
  job,         \* runPipeline's `job`
  data,        \* a stage's local result between its call and its update
  sections,    \* generateClips' `sections`
  idx,         \* generateClips' `i` (1-based)
  exc,         \* the exception being handled
  cancelPc,    \* cancelVideoJobAction: "idle", "checked"
  statusLog,   \* history: the statuses the orchestrator persisted, repeats dropped
  finished,    \* history: the number of stages that returned
  raised,      \* history: the stage that raised first and its error
  calls,       \* history: the number of external generation calls
  callsAtReturn, \* history: calls and statusLog when createVideoJob returned
  cancelled,   \* history: a cancel was written
  clipRun      \* history of the clip stage's current run: its number, the
               \* sections it started with, the sections the generator was
               \* called for, the calls, the updates after them, the durations
               \* and frame counts sent, the last call's result

vars == <<db, cpc, returned, timer, pc, job, data, sections, idx, exc, cancelPc,
          statusLog, finished, raised, calls, callsAtReturn, cancelled, clipRun>>

creatorVars == <<cpc, returned, timer, callsAtReturn>>
cancelVars == <<cancelPc, cancelled>>
clipVars == <<sections, idx, clipRun>>

NoRaise == [stage |-> Undef, err |-> NoErr]
NoClipRun == [run |-> 0, start |-> <<>>, called |-> {}, attempts |-> 0,
              persists |-> 0, durations |-> {}, frames |-> {},
              order |-> <<>>, inflight |-> {},
              last |-> [wan |-> FALSE, kind |-> "none", val |-> Undef]]

\* the status history with s persisted after it
Logged(s) ==
  IF statusLog # <<>> /\ statusLog[Len(statusLog)] = s
    THEN statusLog ELSE Append(statusLog, s)

\* ------------------------------------------------------------- Init
Init ==
  /\ db = NoRow
  /\ cpc = "start"
  /\ returned = NoRow
  /\ timer = "unset"
  /\ pc = "idle"
  /\ job = NoRow
  /\ data = <<>>
  /\ sections = <<>>
  /\ idx = 0
  /\ exc = NoErr
  /\ cancelPc = "idle"
  /\ statusLog = <<>>
  /\ finished = 0
  /\ raised = NoRaise
  /\ calls = 0
  /\ callsAtReturn = [calls |-> -1, log |-> <<>>, row |-> NoRow]
  /\ cancelled = FALSE
  /\ clipRun = NoClipRun

\* ------------------------------------------------------------- createVideoJob
\* await insertJob(job): store.ts awaits the insert and does not look at the
\* error the client returns, so a refused insert goes unnoticed; only a
\* createClient() that throws makes insertJob, and with it createVideoJob,
\* raise
InsertJob ==
  /\ cpc = "start"
  /\ \/ /\ db' = NewJob
        /\ statusLog' = Logged(NewJob.status)
        /\ cpc' = "inserted"
     \/ /\ cpc' = "inserted"
        /\ UNCHANGED <<db, statusLog>>
     \/ /\ cpc' = "raised"
        /\ UNCHANGED <<db, statusLog>>
  /\ UNCHANGED <<returned, timer, callsAtReturn, pc, job, data, exc, finished,
                 raised, calls>>
  /\ UNCHANGED <<cancelVars, clipVars>>

\* setTimeout(..., 100); return job: one synchronous step
ScheduleAndReturn ==
  /\ cpc = "inserted"
  /\ cpc' = "returned"
  /\ timer' = "armed"
  /\ returned' = NewJob
  /\ callsAtReturn' = [calls |-> calls, log |-> statusLog, row |-> db]
  /\ UNCHANGED <<db, pc, job, data, exc, statusLog, finished, raised, calls>>
  /\ UNCHANGED <<cancelVars, clipVars>>

\* the timer callback starts runPipeline(job.id)
TimerFires ==
  /\ timer = "armed"
  /\ timer' = "fired"
  /\ pc' = "get_job"
  /\ UNCHANGED <<db, cpc, returned, callsAtReturn, job, data, exc, statusLog,
                 finished, raised, calls>>
  /\ UNCHANGED <<cancelVars, clipVars>>

\* ------------------------------------------------------------- runPipeline
\* the variables a pipeline step leaves alone
PipelineFrame == UNCHANGED <<creatorVars, cancelVars>>

\* a throw inside runPipeline's try block
Throw(stage, e) ==
  /\ exc' = e
  /\ raised' = IF raised = NoRaise THEN [stage |-> stage, err |-> e] ELSE raised
  /\ pc' = "catch"

\* an updateJob that leaves a cancelled row as it is
UpdateKeepsCancelled(stage, patch, next) ==
  \/ /\ db # NoRow
     /\ db' = IF db.status = "cancelled" THEN db ELSE Patched(db, patch)
     /\ pc' = next
     /\ UNCHANGED <<exc, raised>>
  \/ /\ \E e \in StoreErrors : Throw(stage, e)
     /\ UNCHANGED db

\* updateJob(id, patch) as a stage calls it: the row patched, or the store's
\* error thrown (always, when the row does not exist)
UpdateOrThrow(stage, patch, next) ==
  \/ /\ db # NoRow
     /\ db' = Patched(db, patch)
     /\ pc' = next
     /\ UNCHANGED <<exc, raised>>
  \/ /\ \E e \in StoreErrors : Throw(stage, e)
     /\ UNCHANGED db

\* await updateJob(job.id, { status }) at the head of a stage
MarkStatus(stage, next) ==
  /\ UpdateOrThrow(stage, [status |-> StatusOf(stage)], next)
  /\ statusLog' = IF pc' = next THEN Logged(StatusOf(stage)) ELSE statusLog

\* return await updateJob(job.id, patch) at the end of a stage
PersistAndReturn(stage, patch, next) ==
  /\ UpdateOrThrow(stage, patch, next)
  /\ job' = IF pc' = next
              THEN (IF next \in NormalizedBefore THEN NormalizeJob(db') ELSE db')
              ELSE job
  /\ data' = <<>>
  /\ finished' = IF pc' = next THEN finished + 1 ELSE finished

\* a structuredJSON call that never returns: with a chosen model and a
\* fallback model that are both gpt-5 models and a service that fails every
\* attempt, each exhausted pass starts another one (see SJFallback)
NeverReturns ==
  /\ pc' = "retrying_forever"
  /\ UNCHANGED <<exc, raised>>

\* let job = await getJob(jobId): before the try block
GetJob ==
  /\ pc = "get_job"
  /\ \/ /\ db # NoRow
        /\ job' = NormalizeJob(db)
        /\ pc' = "plan_status"
        /\ UNCHANGED exc
     \/ /\ \E e \in StoreErrors : exc' = e
        /\ pc' = "callback_catch"
        /\ UNCHANGED job
  /\ UNCHANGED <<db, data, statusLog, finished, raised, calls, clipVars>>
  /\ PipelineFrame

\* ---- plan
PlanStatus ==
  /\ pc = "plan_status"
  /\ MarkStatus("plan", "plan_call")
  /\ UNCHANGED <<job, data, finished, calls, clipVars>>
  /\ PipelineFrame

\* the sections a plan response with targets ts gives
\* (an item without targetSeconds has passed no validation: it is taken to
\* lack its objective too)
PlanSections(ts) ==
  [i \in 1..Len(ts) |->
     [PlannedSection(i, ts[i]) EXCEPT !.objective = IF ts[i] = None THEN Undef ELSE @]]

\* the plan responses: MaxSections items at most
PlanResponses == {[i \in 1..n |-> t[i]] : n \in 0..MaxSections, t \in PlanTargets}

\* structuredJSON(video_plan) and data.sections.map(...)
PlanCall ==
  /\ pc = "plan_call"
  /\ calls' = calls + 1
  /\ \/ \E ts \in PlanResponses :
          /\ data' = PlanSections(ts)
          /\ pc' = "plan_persist"
          /\ UNCHANGED <<exc, raised>>
     \/ /\ \E m \in {"openai_error", "data.sections is undefined"} : Throw("plan", Err(m))
        /\ UNCHANGED data
     \/ /\ NeverReturns
        /\ UNCHANGED data
  /\ UNCHANGED <<db, job, statusLog, finished, clipVars>>
  /\ PipelineFrame

PlanPersist ==
  /\ pc = "plan_persist"
  /\ PersistAndReturn("plan", [sections |-> data], "draft_status")
  /\ UNCHANGED <<statusLog, calls, clipVars>>
  /\ PipelineFrame

\* ---- what the text stages do with a response
\* a || b of JavaScript on strings and absent values
Or(a, b) == IF a \in {Undef, ""} THEN b ELSE a

\* sanitizeSpokenScript on the texts the model knows: String(input || ""),
\* with bracketed directions removed
Sanitize(x) == IF x \in {Undef, "", "[pause]"} THEN "" ELSE x

\* title.toLowerCase() on the titles the model knows
LowerTitle(t) == CASE t = "Hook" -> "hook" [] t = "Intro" -> "intro" [] OTHER -> t

\* an id no section has
ForeignId == 0
\* what Map.get gives for a key no entry has
NoEntry == "no_entry"

\* a response's entries, each with a key (an id, a title) and a text; a Map
\* filled from them in order holds, for a key, the text of its last entry
RECURSIVE LastFor(_, _)
LastFor(entries, k) ==
  IF entries = <<>> THEN NoEntry
  ELSE IF entries[Len(entries)].key = k THEN entries[Len(entries)].text
  ELSE LastFor(SubSeq(entries, 1, Len(entries) - 1), k)

\* all sequences of at most n entries with the given keys and texts
RECURSIVE EntriesUpTo(_, _, _)
EntriesUpTo(n, keys, texts) ==
  IF n = 0 THEN {<<>>}
  ELSE LET shorter == EntriesUpTo(n - 1, keys, texts)
       IN  shorter \cup {Append(es, [key |-> k, text |-> t]) :
                           es \in shorter, k \in keys, t \in texts}

\* the ids of a section list, in order
Ids(secs) == [i \in 1..Len(secs) |-> secs[i].id]
IdSet(secs) == {secs[i].id : i \in 1..Len(secs)}

\* a response with one entry per section in section order, and one with the
\* entries in the opposite order after an entry for an id no section has
InOrder(keys, text) == [i \in 1..Len(keys) |-> [key |-> keys[i], text |-> text]]
Reversed(keys, text) ==
  <<[key |-> ForeignId, text |-> text]>> \o
    [i \in 1..Len(keys) |-> [key |-> keys[Len(keys) + 1 - i], text |-> text]]

\* ---- draft
\* updateJob({status}) and `if (!job.sections.length) return job`
DraftStatus ==
  /\ pc = "draft_status"
  /\ IF job.sections = <<>>
       THEN /\ MarkStatus("draft", "script_status")
            /\ finished' = IF pc' = "script_status" THEN finished + 1 ELSE finished
       ELSE /\ MarkStatus("draft", "draft_call")
            /\ UNCHANGED finished
  /\ UNCHANGED <<job, data, calls, clipVars>>
  /\ PipelineFrame

\* the draft of a section: map.get(title.toLowerCase()), entries without a
\* title left out of the map; found?.draft_narration || objective
Drafted(sec, entries) ==
  LET titled == SelectSeq(entries, LAMBDA e : e.key \notin {Undef, ""})
      keyed == [i \in 1..Len(titled) |-> [titled[i] EXCEPT !.key = LowerTitle(@)]]
      found == LastFor(keyed, LowerTitle(sec.title))
  IN  [sec EXCEPT
         !.draft_narration = IF found = NoEntry THEN sec.objective ELSE Or(found, sec.objective),
         !.draft_visual = IF found = NoEntry THEN "Visual: " \o sec.objective ELSE "visual"]

\* the draft responses of a whole run: none that is of use (or a failure,
\* which the stage's try/catch turns into the same), and one draft per title
DraftShapes(secs) ==
  {<<>>, InOrder([i \in 1..Len(secs) |-> secs[i].title], "draft")}

\* structuredJSON(video_draft) inside try/catch: a failure is logged and the
\* sections get their objective as draft
DraftCallOn(responses) ==
  /\ pc = "draft_call"
  /\ calls' = calls + 1
  /\ \/ \E r \in responses :
          /\ data' = [sections |-> [i \in 1..Len(job.sections) |-> Drafted(job.sections[i], r)],
                      response |-> r]
          /\ pc' = "draft_persist"
          /\ UNCHANGED <<exc, raised>>
     \/ /\ NeverReturns
        /\ UNCHANGED data
  /\ UNCHANGED <<db, job, statusLog, finished, clipVars>>
  /\ PipelineFrame

DraftCall == DraftCallOn(DraftShapes(job.sections))

DraftPersist ==
  /\ pc = "draft_persist"
  /\ PersistAndReturn("draft", [sections |-> data.sections], "script_status")
  /\ UNCHANGED <<statusLog, calls, clipVars>>
  /\ PipelineFrame

\* ---- script
ScriptStatus ==
  /\ pc = "script_status"
  /\ MarkStatus("script", "script_call")
  /\ UNCHANGED <<job, data, finished, calls, clipVars>>
  /\ PipelineFrame

\* a script stage without the fallback section
OrNothing(secs) == secs

\* job.sections, or the one fallback section when there is none
OrFallback(secs) == IF secs = <<>> THEN <<FallbackSection(1)>> ELSE secs

\* a script stage that takes the response's entries as the section list
ScriptedFromResponse(secs, entries) ==
  [i \in 1..Len(entries) |->
     [secs[1] EXCEPT !.id = entries[i].key, !.script = Sanitize(entries[i].text)]]

\* scriptMap: draft_narration || "" for each id, replaced by the sanitized
\* script of each entry whose id is in the map and whose script is a string;
\* script: sanitizeSpokenScript(scriptMap.get(id) || objective)
Scripted(secs, entries) ==
  LET known == SelectSeq(entries, LAMBDA e : e.key \in IdSet(secs) /\ e.text # Undef)
  IN  [i \in 1..Len(secs) |->
         LET given == LastFor(known, secs[i].id)
             mapped == IF given = NoEntry THEN Or(secs[i].draft_narration, "")
                       ELSE Sanitize(given)
         IN  [secs[i] EXCEPT !.script = Sanitize(Or(mapped, secs[i].objective))]]

\* the script responses of a whole run: a script for every id in order, the
\* same in the opposite order after an entry for another id, and none
ScriptShapes(secs) ==
  {InOrder(Ids(secs), "words"), Reversed(Ids(secs), "words"), <<>>}

\* structuredJSON(video_script) and the scripts put on the sections by id
ScriptCallOn(responses) ==
  /\ pc = "script_call"
  /\ calls' = calls + 1
  /\ \/ \E r \in responses :
          /\ data' = [sections |-> Scripted(OrFallback(job.sections), r), response |-> r]
          /\ pc' = "script_persist"
          /\ UNCHANGED <<exc, raised>>
     \/ /\ Throw("script", Err("openai_error"))
        /\ UNCHANGED data
     \/ /\ NeverReturns
        /\ UNCHANGED data
  /\ job' = [job EXCEPT !.sections = OrFallback(job.sections)]
  /\ UNCHANGED <<db, statusLog, finished, clipVars>>
  /\ PipelineFrame

ScriptCall == ScriptCallOn(ScriptShapes(OrFallback(job.sections)))

ScriptPersist ==
  /\ pc = "script_persist"
  /\ PersistAndReturn("script", [sections |-> data.sections], "prompts_status")
  /\ UNCHANGED <<statusLog, calls, clipVars>>
  /\ PipelineFrame

\* ---- prompts
PromptsStatus ==
  /\ pc = "prompts_status"
  /\ MarkStatus("prompts", "prompts_entities")
  /\ UNCHANGED <<job, data, finished, calls, clipVars>>
  /\ PipelineFrame

\* structuredJSON(video_entities) inside try/catch: a failure falls back to
\* the fixed visual style; entities.characters.map(...) and
\* entities.settings.map(...) follow outside the try.  The call comes to an
\* object with characters and settings lists; to a failure, caught; or to an
\* object that is not of the requested shape (structuredJSON returns it as it
\* is)
PromptsEntities ==
  /\ pc = "prompts_entities"
  /\ calls' = calls + 1
  /\ \/ /\ \E o \in {"entities", "failed"} :
             data' = [style |-> IF o = "entities" THEN "extracted" ELSE "generic", entities |-> o]
        /\ pc' = "prompts_call"
        /\ UNCHANGED <<exc, raised>>
     \/ /\ Throw("prompts", Err("entities.characters.map is not a function"))
        /\ data' = [style |-> Undef, entities |-> "misshapen"]
     \/ /\ NeverReturns
        /\ UNCHANGED data
  /\ UNCHANGED <<db, job, statusLog, finished, clipVars>>
  /\ PipelineFrame

\* a prompts stage that puts the response's i-th prompt on the i-th section
PromptedByPosition(secs, entries) ==
  [i \in 1..Len(secs) |->
     [secs[i] EXCEPT !.shot_prompt =
        Or(IF i <= Len(entries) THEN entries[i].text ELSE Undef,
           "Cinematic shot related to: " \o secs[i].objective)]]

\* promptMap.get(id) || ("Cinematic shot related to: " + objective)
Prompted(secs, entries) ==
  [i \in 1..Len(secs) |->
     LET given == LastFor(entries, secs[i].id)
     IN  [secs[i] EXCEPT !.shot_prompt =
            Or(IF given = NoEntry THEN Undef ELSE given,
               "Cinematic shot related to: " \o secs[i].objective)]]

\* the prompt responses of a whole run: a prompt for every id in order, and
\* the same in the opposite order after an entry for another id
PromptShapes(secs) ==
  {InOrder(Ids(secs), "prompt"), Reversed(Ids(secs), "prompt")}

\* structuredJSON(video_prompts): promptMap.get(id) || fallback on each section
PromptsCallOn(responses) ==
  /\ pc = "prompts_call"
  /\ calls' = calls + 1
  /\ \/ \E r \in responses :
          /\ data' = [sections |-> Prompted(OrFallback(job.sections), r), response |-> r,
                      style |-> data.style]
          /\ pc' = "prompts_persist"
          /\ UNCHANGED <<exc, raised>>
     \/ /\ Throw("prompts", Err("openai_error"))
        /\ UNCHANGED data
     \/ /\ NeverReturns
        /\ UNCHANGED data
  /\ job' = [job EXCEPT !.sections = OrFallback(job.sections)]
  /\ UNCHANGED <<db, statusLog, finished, clipVars>>
  /\ PipelineFrame

PromptsCall == PromptsCallOn(PromptShapes(OrFallback(job.sections)))

PromptsPersist ==
  /\ pc = "prompts_persist"
  /\ PersistAndReturn("prompts", [sections |-> data.sections], "clips_status")
  /\ UNCHANGED <<statusLog, calls, clipVars>>
  /\ PipelineFrame

\* a loop without the `continue`: every section is generated
NextPendingAll(secs, i) == IF i > Len(secs) THEN Len(secs) + 1 ELSE i

\* a duration that is not clamped
ClampDurationRaw(t) == IF t = None \/ t = Some(0) THEN 50 ELSE t[1]

\* a catch that leaves the section as it was
ClipFailedUnrecorded(sec, e) == sec

\* ---- generateClips
\* the first section at or after i that has no clip_url (`continue` past the
\* others), or Len + 1
RECURSIVE NextPending(_, _)
NextPending(secs, i) ==
  IF i > Len(secs) THEN Len(secs) + 1
  ELSE IF secs[i].clip_url = Undef THEN i
  ELSE NextPending(secs, i + 1)

\* Math.min(Math.max(section.target_seconds || 5, 2), 12), in tenths
ClampDuration(t) ==
  Min(Max(IF t = None \/ t = Some(0) THEN 50 ELSE t[1], 20), 120)

\* Math.round(x / 10) for x >= 0
RoundTenths(x) == (x + 5) \div 10

\* num_frames for the default model: Math.round(duration * 16) held in 81..121
WanFrames(d) ==
  LET desired == RoundTenths(d * 16)
  IN  IF desired < 81 THEN 81 ELSE IF desired > 121 THEN 121 ELSE desired

\* a success that leaves an earlier clip_error on the section
ClipSucceededKeepsError(sec, url) ==
  [sec EXCEPT !.clip_id = "new_id", !.clip_url = url]

\* the section after a generator call that returned url
ClipSucceeded(sec, url) ==
  [sec EXCEPT !.clip_id = "new_id", !.clip_url = url, !.clip_error = Undef]

\* the section after a generator call that threw e
ClipFailed(sec, e) ==
  [sec EXCEPT !.clip_error = IF e.isErr THEN e.msg ELSE "clip_failed"]

\* where the loop stands with i: at a generator call or past the last section
LoopAt(secs, i) == IF i > Len(secs) THEN "clips_return" ELSE "clips_call"

\* updateJob({status}); sections = [...job.sections]; the loop up to the first
\* section without a clip
ClipsStatus ==
  /\ pc = "clips_status"
  /\ MarkStatus("generateClips", LoopAt(job.sections, NextPending(job.sections, 1)))
  /\ IF pc' # "catch"
       THEN /\ sections' = job.sections
            /\ idx' = NextPending(job.sections, 1)
            /\ clipRun' = [clipRun EXCEPT !.start = job.sections]
       ELSE UNCHANGED clipVars
  /\ UNCHANGED <<job, data, finished, calls>>
  /\ PipelineFrame

\* what generateVideoClip does with a call: whether the default model was
\* run (always, unless another model was chosen and answered), and the result:
\* a URL, nothing (output[0] of an empty array) or an Error
ClipResults(model) ==
  {[wan |-> FALSE, kind |-> "url", val |-> "new_url"] : x \in {y \in {1} : model # Undef}}
    \cup {[wan |-> TRUE, kind |-> "url", val |-> v] : v \in {"new_url", Undef}}
    \cup {[wan |-> TRUE, kind |-> "throw", val |-> "replicate_error"]}

\* a loop that starts the call and goes on to the next section without
\* awaiting it
ClipsCallNotAwaited ==
  /\ pc = "clips_call"
  /\ calls' = calls + 1
  /\ clipRun' = [clipRun EXCEPT
                   !.called = @ \cup {idx},
                   !.attempts = @ + 1,
                   !.durations = @ \cup {ClampDuration(sections[idx].target_seconds)},
                   !.order = Append(@, idx),
                   !.inflight = @ \cup {idx}]
  /\ idx' = IF NextPending(sections, idx + 1) > Len(sections) THEN idx
            ELSE NextPending(sections, idx + 1)
  /\ pc' = IF NextPending(sections, idx + 1) > Len(sections) THEN "clips_await" ELSE "clips_call"
  /\ UNCHANGED <<db, job, data, sections, exc, statusLog, finished, raised>>
  /\ PipelineFrame

\* try { duration; await generateVideoClip(...): the call is made and the
\* stage is suspended until it answers
ClipsCall ==
  /\ pc = "clips_call"
  /\ calls' = calls + 1
  /\ clipRun' = [clipRun EXCEPT
                   !.called = @ \cup {idx},
                   !.attempts = @ + 1,
                   !.durations = @ \cup {ClampDuration(sections[idx].target_seconds)},
                   !.order = Append(@, idx),
                   !.inflight = @ \cup {idx}]
  /\ pc' = "clips_await"
  /\ UNCHANGED <<db, job, data, sections, idx, exc, statusLog, finished, raised>>
  /\ PipelineFrame

\* ... the generator answers: clip_url } catch { clip_error }
ClipsAnswer ==
  /\ pc = "clips_await"
  /\ \E r \in ClipResults(job.video_model) :
       LET d == ClampDuration(sections[idx].target_seconds) IN
       /\ sections' = [sections EXCEPT ![idx] =
                         IF r.kind = "url" THEN ClipSucceeded(@, r.val)
                                           ELSE ClipFailed(@, Err(r.val))]
       /\ clipRun' = [clipRun EXCEPT
                        !.last = r,
                        !.inflight = @ \ {idx},
                        !.frames = IF r.wan THEN @ \cup {WanFrames(d)} ELSE @]
  /\ pc' = "clips_persist"
  /\ UNCHANGED <<db, job, data, idx, exc, statusLog, finished, raised, calls>>
  /\ PipelineFrame

\* a loop that goes to the next section without the update
ClipsPersistSkipped ==
  /\ pc = "clips_persist"
  /\ pc' = LoopAt(sections, NextPending(sections, idx + 1))
  /\ idx' = NextPending(sections, idx + 1)
  /\ UNCHANGED <<db, job, data, sections, clipRun, exc, raised, statusLog, finished, calls>>
  /\ PipelineFrame

\* await updateJob(job.id, { sections }) and the loop up to the next section
\* without a clip
ClipsPersist ==
  /\ pc = "clips_persist"
  /\ UpdateOrThrow("generateClips", [sections |-> sections],
                   LoopAt(sections, NextPending(sections, idx + 1)))
  /\ IF pc' # "catch"
       THEN /\ idx' = NextPending(sections, idx + 1)
            /\ clipRun' = [clipRun EXCEPT !.persists = @ + 1]
       ELSE UNCHANGED <<idx, clipRun>>
  /\ UNCHANGED <<job, data, sections, statusLog, finished, calls>>
  /\ PipelineFrame

\* return await getJob(job.id)
ClipsReturnTo(next) ==
  /\ pc = "clips_return"
  /\ \/ /\ db # NoRow
        /\ job' = db
        /\ finished' = finished + 1
        /\ pc' = next
        /\ UNCHANGED <<exc, raised>>
     \/ /\ \E e \in StoreErrors : Throw("generateClips", e)
        /\ UNCHANGED <<job, finished>>
  /\ sections' = IF pc' = next THEN <<>> ELSE sections
  /\ idx' = IF pc' = next THEN 0 ELSE idx
  /\ UNCHANGED <<db, data, statusLog, calls, clipRun>>
  /\ PipelineFrame

ClipsReturn == ClipsReturnTo("vo_status")

\* ---- generateVoiceover
VoStatus ==
  /\ pc = "vo_status"
  /\ MarkStatus("generateVoiceover", "vo_call")
  /\ UNCHANGED <<job, data, finished, calls, clipVars>>
  /\ PipelineFrame

\* job.sections.map(s => s.script).join(" ").trim() is empty
RECURSIVE EmptyScript(_)
EmptyScript(secs) ==
  IF secs = <<>> THEN TRUE
  ELSE Head(secs).script \in {Undef, ""} /\ EmptyScript(Tail(secs))

\* the scripts joined into the narration: the ids of the sections whose
\* script is part of it, in order
Narration(secs) ==
  LET spoken == SelectSeq(secs, LAMBDA sec : sec.script \notin {Undef, ""})
  IN  [i \in 1..Len(spoken) |-> spoken[i].id]

\* text.toLowerCase() on the words the model knows in upper case
Lower(w) == CASE w = "Hype" -> "hype" [] OTHER -> w

\* job.idea + " " + sections.map(s => `${s.title} ${s.objective}`).join(" "),
\* lower-cased: the words of the text in order
RECURSIVE TitlesAndObjectives(_)
TitlesAndObjectives(secs) ==
  IF secs = <<>> THEN <<>>
  ELSE <<Lower(Head(secs).title), Lower(Head(secs).objective)>> \o TitlesAndObjectives(Tail(secs))
VoiceText(j) == <<Lower(j.idea)>> \o TitlesAndObjectives(j.sections)

\* the five patterns, on the words the model knows: a word of the pattern
\* anywhere in the text, or the two words of "deep dive" next to each other
PatternMatches(cat, text) ==
  \/ \E i \in 1..Len(text) :
        \/ cat = "energetic" /\ text[i] = "hype"
        \/ cat = "calm" /\ text[i] = "focus"
        \/ cat = "storyteller" /\ text[i] = "history"
        \/ cat = "investigative" /\ text[i] = "forensic"
        \/ cat = "casual" /\ text[i] = "vlog"
  \/ \E i \in 1..(Len(text) - 1) :
        cat = "investigative" /\ text[i] = "deep" /\ text[i + 1] = "dive"

\* a selection made of five independent ifs: the last match wins
VoiceLastWins(text) ==
  IF PatternMatches("casual", text) THEN "casual"
  ELSE IF PatternMatches("investigative", text) THEN "calm"
  ELSE IF PatternMatches("storyteller", text) THEN "storyteller"
  ELSE IF PatternMatches("calm", text) THEN "calm"
  ELSE IF PatternMatches("energetic", text) THEN "energetic"
  ELSE "professional"

\* let voice = "professional"; if ... else if ...
Voice(text) ==
  IF PatternMatches("energetic", text) THEN "energetic"
  ELSE IF PatternMatches("calm", text) THEN "calm"
  ELSE IF PatternMatches("storyteller", text) THEN "storyteller"
  ELSE IF PatternMatches("investigative", text) THEN "calm"
  ELSE IF PatternMatches("casual", text) THEN "casual"
  ELSE "professional"

\* a voiceover stage without the empty-script check
VoCallUnchecked ==
  /\ pc = "vo_call"
  /\ calls' = calls + 1
  /\ data' = [url |-> "audio_url", voice |-> Voice(VoiceText(job)),
              narration |-> Narration(job.sections)]
  /\ pc' = "vo_persist"
  /\ UNCHANGED <<db, job, exc, raised, statusLog, finished, clipVars>>
  /\ PipelineFrame

\* the empty-script check, the voice selection and the synthesizer call
VoCall ==
  /\ pc = "vo_call"
  /\ IF job.sections = Malformed
       THEN /\ Throw("generateVoiceover", Err("job.sections.map is not a function"))
            /\ UNCHANGED <<data, calls>>
       ELSE IF EmptyScript(job.sections)
       THEN /\ Throw("generateVoiceover", Err("Empty script cannot generate voiceover"))
            /\ UNCHANGED <<data, calls>>
       ELSE /\ calls' = calls + 1
            /\ \/ /\ data' = [url |-> "audio_url", voice |-> Voice(VoiceText(job)),
                                narration |-> Narration(job.sections)]
                  /\ pc' = "vo_persist"
                  /\ UNCHANGED <<exc, raised>>
               \/ /\ Throw("generateVoiceover", Err("tts_error"))
                  /\ UNCHANGED data
  /\ UNCHANGED <<db, job, statusLog, finished, clipVars>>
  /\ PipelineFrame

VoPersist ==
  /\ pc = "vo_persist"
  /\ PersistAndReturn("generateVoiceover",
                      [voiceover_url |-> data.url, voice_id |-> data.voice], "cap_status")
  /\ UNCHANGED <<statusLog, calls, clipVars>>
  /\ PipelineFrame

\* ---- generateCaptions
CapStatus ==
  /\ pc = "cap_status"
  /\ MarkStatus("generateCaptions", "cap_call")
  /\ UNCHANGED <<job, data, finished, calls, clipVars>>
  /\ PipelineFrame

\* the transcriber's answer in a pipeline run: one caption that ends at 12.4 s
HeardCaptions == <<[text |-> "words", start |-> 0, end |-> 124]>>

\* a caption stage without the voiceover_url check
CapCallUnchecked ==
  /\ pc = "cap_call"
  /\ calls' = calls + 1
  /\ data' = HeardCaptions
  /\ pc' = "cap_persist"
  /\ UNCHANGED <<db, job, exc, raised, statusLog, finished, clipVars>>
  /\ PipelineFrame

\* the voiceover_url check and the transcriber call
CapCall ==
  /\ pc = "cap_call"
  /\ IF job.voiceover_url = Undef
       THEN /\ Throw("generateCaptions", Err("Voiceover must be generated before captions"))
            /\ UNCHANGED <<data, calls>>
       ELSE /\ calls' = calls + 1
            /\ \/ /\ data' = HeardCaptions
                  /\ pc' = "cap_persist"
                  /\ UNCHANGED <<exc, raised>>
               \/ /\ Throw("generateCaptions", Err("whisper_error"))
                  /\ UNCHANGED data
  /\ UNCHANGED <<db, job, statusLog, finished, clipVars>>
  /\ PipelineFrame

CapPersist ==
  /\ pc = "cap_persist"
  /\ PersistAndReturn("generateCaptions", [captions |-> data], "st_status")
  /\ UNCHANGED <<statusLog, calls, clipVars>>
  /\ PipelineFrame

\* ---- stitch
StStatus ==
  /\ pc = "st_status"
  /\ MarkStatus("stitch", "st_call")
  /\ UNCHANGED <<job, data, finished, calls, clipVars>>
  /\ PipelineFrame

\* job.sections.map(s => s.clip_url).filter(Boolean)
ClipUrls(secs) == SelectSeq([i \in 1..Len(secs) |-> secs[i].clip_url], LAMBDA u : u # Undef)

\* processWithShotstack when SHOTSTACK_API_KEY is set: it returns the render's
\* URL or throws; "unset" when there is no key
PrimaryOutcomes == {"unset", "ok", "ok_no_url", "failed"}
\* the render is done: return statusData.url || statusData.response?.url,
\* which is undefined when the status answer carries no url
RenderedUrl(primary) == IF primary = "ok" THEN "shotstack_url" ELSE Undef
\* the endpoint at VIDEO_PROCESSOR_URL: not configured; answers with a
\* videoUrl; answers without one (or with a body that is not JSON); the fetch
\* throws or the response is not ok
AlternateOutcomes == {"unset", "url", "no_url", "failed"}

\* a compositor that has no alternate: a failed render is a failed stitch
ProcessShotstackOnly(clips, primary, alternate) ==
  [ok |-> primary # "failed",
   url |-> CASE primary \in {"ok", "ok_no_url"} -> RenderedUrl(primary)
             [] primary = "failed" -> Undef
             [] OTHER -> clips[1],
   primary |-> primary, alternate |-> "not_tried"]

\* processAndCombineVideos: the URL it returns, or ok = FALSE when it throws
\* "Failed to process video"; with what each compositor did
ProcessAndCombineVideos(clips, primary, alternate) ==
  IF primary \in {"ok", "ok_no_url"}
    THEN [ok |-> TRUE, url |-> RenderedUrl(primary), primary |-> primary, alternate |-> "not_tried"]
    ELSE [ok |-> alternate # "failed",
          url |-> CASE alternate = "url" -> "processor_url"
                    [] alternate = "failed" -> Undef
                    [] OTHER -> clips[1],
          primary |-> primary, alternate |-> alternate]

\* the remote calls a processAndCombineVideos made
CompositorCalls(r) ==
  (IF r.primary = "unset" THEN 0 ELSE 1) + (IF r.alternate \in {"unset", "not_tried"} THEN 0 ELSE 1)

\* stitch: durations: job.sections.map(s => Math.max(1, s.target_seconds || 5)),
\* one for every section of the job, with a clip or without
StitchDurations(secs) ==
  [i \in 1..Len(secs) |->
     LET t == secs[i].target_seconds
     IN  Max(10, IF t = None \/ t[1] = 0 THEN 50 ELSE t[1])]

\* params.captions?.length ? params.captions[length - 1].end : 0
LastCaptionEnd(captions) ==
  IF captions = Undef \/ captions = <<>> THEN 0 ELSE captions[Len(captions)].end

\* processWithShotstack: the length of each clip on the timeline, in tenths of
\* a second as the fraction num / den. The caption time split evenly when the
\* last caption ends after 1 s, else 6 s; and Math.max(0.75, durations[i] || 5)
ShotstackTimeline(clips, captions, durations) ==
  LET last == LastCaptionEnd(captions)
      per == IF last > 10 THEN [num |-> last, den |-> Len(clips)] ELSE [num |-> 60, den |-> 1]
      desired == IF 2 * per.num < 15 * per.den THEN [num |-> 15, den |-> 2] ELSE per
  IN  [i \in 1..Len(clips) |-> desired]

\* the no-clips check and processAndCombineVideos
StCall ==
  /\ pc = "st_call"
  /\ IF job.sections = Malformed
       THEN /\ Throw("stitch", Err("job.sections.map is not a function"))
            /\ UNCHANGED <<data, calls>>
       ELSE IF ClipUrls(job.sections) = <<>>
       THEN /\ Throw("stitch", Err("No clips generated to stitch"))
            /\ UNCHANGED <<data, calls>>
       ELSE \E primary \in PrimaryOutcomes, alternate \in AlternateOutcomes :
              LET r == ProcessAndCombineVideos(ClipUrls(job.sections), primary, alternate) IN
                /\ calls' = calls + CompositorCalls(r)
                /\ data' = [ok |-> r.ok, url |-> r.url, primary |-> r.primary,
                             alternate |-> r.alternate,
                             durations |-> StitchDurations(job.sections),
                             timeline |-> IF primary = "unset" THEN <<>>
                                            ELSE ShotstackTimeline(ClipUrls(job.sections), job.captions,
                                                                   StitchDurations(job.sections))]
                /\ IF r.ok
                     THEN /\ pc' = "st_persist"
                          /\ UNCHANGED <<exc, raised>>
                     ELSE Throw("stitch", Err("Failed to process video"))
  /\ UNCHANGED <<db, job, statusLog, finished, clipVars>>
  /\ PipelineFrame

\* return await updateJob(job.id, { video_url: finalUrl }); what the
\* compositors did stays on record to the end of the run
StPersist ==
  /\ pc = "st_persist"
  /\ UpdateOrThrow("stitch", [video_url |-> data.url], "complete")
  /\ job' = IF pc' = "complete" THEN db' ELSE job
  /\ finished' = IF pc' = "complete" THEN finished + 1 ELSE finished
  /\ UNCHANGED <<data, statusLog, calls, clipVars>>
  /\ PipelineFrame

\* ---- the end of runPipeline
\* await updateJob(job.id, { status: "complete" })
Complete ==
  /\ pc = "complete"
  /\ UpdateOrThrow("runPipeline", [status |-> "complete"], "done")
  /\ statusLog' = IF pc' = "done" THEN Logged("complete") ELSE statusLog
  /\ job' = IF pc' = "done" THEN NoRow ELSE job
  /\ UNCHANGED <<data, finished, calls, clipVars>>
  /\ PipelineFrame

\* catch (e) { await updateJob({status: "error", error}); throw e }: with the
\* throw runPipeline's locals are gone
Catch ==
  /\ pc = "catch"
  /\ pc' = "callback_catch"
  /\ \/ /\ db # NoRow
        /\ db' = Patched(db, [status |-> "error", error |-> PipelineErrorMessage(exc)])
        /\ statusLog' = Logged("error")
        /\ UNCHANGED exc
     \/ /\ \E e \in StoreErrors : exc' = e
        /\ UNCHANGED <<db, statusLog>>
  /\ job' = NoRow /\ data' = <<>> /\ sections' = <<>> /\ idx' = 0
  /\ UNCHANGED <<finished, raised, calls, clipRun>>
  /\ PipelineFrame

\* the timer callback's catch: updateJob({status: "error", error}); when that
\* throws too the rejection is unhandled
CallbackCatch ==
  /\ pc = "callback_catch"
  /\ \/ /\ db # NoRow
        /\ db' = Patched(db, [status |-> "error", error |-> CallbackErrorMessage(exc)])
        /\ statusLog' = Logged("error")
        /\ pc' = "done"
     \/ /\ pc' = "rejected"
        /\ UNCHANGED <<db, statusLog>>
  /\ UNCHANGED <<job, data, exc, finished, raised, calls, clipVars>>
  /\ PipelineFrame

\* ------------------------------------------------------------- cancelVideoJobAction
\* getJob and the finished check; a refused or failed cancel changes nothing
CancelRead ==
  /\ cpc = "returned"
  /\ cancelPc = "idle"
  /\ db # NoRow
  /\ ~CancelRefused(db.status)
  /\ cancelPc' = "checked"
  /\ UNCHANGED <<db, pc, job, data, exc, statusLog, finished, raised, calls, cancelled>>
  /\ UNCHANGED <<creatorVars, clipVars>>

\* update({status: "cancelled"}).eq("id", jobId)
CancelWrite ==
  /\ cancelPc = "checked"
  /\ cancelPc' = "idle"
  /\ db' = [db EXCEPT !.status = "cancelled"]
  /\ cancelled' = TRUE
  /\ UNCHANGED <<pc, job, data, exc, statusLog, finished, raised, calls>>
  /\ UNCHANGED <<creatorVars, clipVars>>

\* ------------------------------------------------------------- specifications
PipelineStep ==
  \/ GetJob
  \/ PlanStatus \/ PlanCall \/ PlanPersist
  \/ DraftStatus \/ DraftCall \/ DraftPersist
  \/ ScriptStatus \/ ScriptCall \/ ScriptPersist
  \/ PromptsStatus \/ PromptsEntities \/ PromptsCall \/ PromptsPersist
  \/ ClipsStatus \/ ClipsCall \/ ClipsAnswer \/ ClipsPersist \/ ClipsReturn
  \/ VoStatus \/ VoCall \/ VoPersist
  \/ CapStatus \/ CapCall \/ CapPersist
  \/ StStatus \/ StCall \/ StPersist
  \/ Complete \/ Catch \/ CallbackCatch

Next ==
  \/ InsertJob \/ ScheduleAndReturn \/ TimerFires
  \/ PipelineStep
  \/ CancelRead \/ CancelWrite

Spec == Init /\ [][Next]_vars

\* ------------------------------------------------------------- the clip stage alone
\* generateClips run on a stored job whose sections may already hold clips
\* or errors (a resumed job), and run again on the job it returned.

\* what a section of such a job holds: nothing yet, a clip, an earlier error
Presets == {"fresh", "clip", "failed"}

PresetSection(id, t, p) ==
  [PlannedSection(id, t) EXCEPT
     !.script = "words", !.shot_prompt = "prompt",
     !.clip_id = IF p = "clip" THEN "old_id" ELSE Undef,
     !.clip_url = IF p = "clip" THEN "old_url" ELSE Undef,
     !.clip_error = IF p = "failed" THEN "old_error" ELSE Undef]

InitClips ==
  \E n \in 1..MaxClipSections, t \in TargetValues, vm \in {Undef, "other_model"} :
    \E ps \in [1..n -> Presets] :
      /\ db = [NewJob EXCEPT !.status = "prompting", !.video_model = vm,
                             !.sections = [i \in 1..n |-> PresetSection(i, t, ps[i])]]
      /\ job = db
      /\ pc = "clips_status"
      /\ cpc = "returned"
      /\ returned = NewJob
      /\ timer = "fired"
      /\ data = <<>>
      /\ sections = <<>>
      /\ idx = 0
      /\ exc = NoErr
      /\ cancelPc = "idle"
      /\ statusLog = <<>>
      /\ finished = 0
      /\ raised = NoRaise
      /\ calls = 0
      /\ callsAtReturn = [calls |-> 0, log |-> <<>>, row |-> NewJob]
      /\ cancelled = FALSE
      /\ clipRun = [NoClipRun EXCEPT !.run = 1]

\* the stage returns the job to its caller
StageReturns == ClipsReturnTo("stage_returned")

\* the stage is run again on the job it returned
RunAgain ==
  /\ pc = "stage_returned"
  /\ clipRun.run < MaxRuns
  /\ pc' = "clips_status"
  /\ clipRun' = [NoClipRun EXCEPT !.run = clipRun.run + 1]
  /\ UNCHANGED <<db, job, data, sections, idx, exc, statusLog, finished, raised, calls>>
  /\ PipelineFrame

NextClips == ClipsStatus \/ ClipsCall \/ ClipsAnswer \/ ClipsPersist \/ StageReturns \/ RunAgain

SpecClips == InitClips /\ [][NextClips]_vars

\* ------------------------------------------------------------- the last stages alone
\* The caption stage or the stitch stage started on a stored job, with or
\* without what the stage needs, and the pipeline from there to its end.

InitLate ==
  \E n \in 1..MaxClipSections, vo \in {Undef, "audio_url"}, at \in {"cap_status", "st_status"} :
    \E ps \in [1..n -> Presets] :
      /\ db = [NewJob EXCEPT !.status = "voiceover", !.voiceover_url = vo,
                             !.sections = [i \in 1..n |-> PresetSection(i, None, ps[i])]]
      /\ job = db
      /\ pc = at
      /\ cpc = "returned"
      /\ returned = NewJob
      /\ timer = "fired"
      /\ data = <<>>
      /\ sections = <<>>
      /\ idx = 0
      /\ exc = NoErr
      /\ cancelPc = "idle"
      /\ statusLog = <<>>
      /\ finished = 0
      /\ raised = NoRaise
      /\ calls = 0
      /\ callsAtReturn = [calls |-> 0, log |-> <<>>, row |-> NewJob]
      /\ cancelled = FALSE
      /\ clipRun = NoClipRun

NextLate ==
  \/ CapStatus \/ CapCall \/ CapPersist
  \/ StStatus \/ StCall \/ StPersist
  \/ Complete \/ Catch \/ CallbackCatch

SpecLate == InitLate /\ [][NextLate]_vars

\* ------------------------------------------------------------- the voiceover stage alone
\* generateVoiceover started on a stored job: an idea, and sections with a
\* title, an objective, a script or none, a clip or a clip error.

\* the words an idea, a title or an objective is made of
IdeaWords == {"plain", "deep", "vlog"}
SectionWords == {"plain", "Hype", "focus", "history", "deep", "dive", "vlog"}
\* what a section holds when the stage starts
SpokenPresets ==
  {[clip |-> "clip", script |-> "words"], [clip |-> "failed", script |-> "words"],
   [clip |-> "clip", script |-> ""]}

SpokenSection(id, title, objective, p) ==
  [PresetSection(id, None, p.clip) EXCEPT
     !.title = title, !.objective = objective, !.script = p.script]

InitVoice ==
  \E n \in 0..MaxSpoken, idea \in IdeaWords :
    \E ts \in [1..n -> SectionWords], os \in [1..n -> SectionWords], ps \in [1..n -> SpokenPresets] :
      /\ db = [NewJob EXCEPT !.status = "generating_clips", !.idea = idea,
                             !.sections = [i \in 1..n |-> SpokenSection(i, ts[i], os[i], ps[i])]]
      /\ job = db
      /\ pc = "vo_status"
      /\ cpc = "returned"
      /\ returned = NewJob
      /\ timer = "fired"
      /\ data = <<>>
      /\ sections = <<>>
      /\ idx = 0
      /\ exc = NoErr
      /\ cancelPc = "idle"
      /\ statusLog = <<>>
      /\ finished = 0
      /\ raised = NoRaise
      /\ calls = 0
      /\ callsAtReturn = [calls |-> 0, log |-> <<>>, row |-> NewJob]
      /\ cancelled = FALSE
      /\ clipRun = NoClipRun

NextVoice == VoStatus \/ VoCall \/ VoPersist \/ Catch \/ CallbackCatch

SpecVoice == InitVoice /\ [][NextVoice]_vars

\* ------------------------------------------------------------- the text stages alone
\* draft, script and prompts run on a planned job, with responses that name
\* the sections in any order, leave some out, name others, or carry no text.

\* the planned sections' titles (two of them differ in case only) and
\* objectives
TitleOf(i) == CASE i = 1 -> "Hook" [] i = 2 -> "hook" [] OTHER -> "Outro"
ObjectiveOf(i) == CASE i = 1 -> "first goal" [] i = 2 -> "second goal" [] OTHER -> "last goal"

DraftResponses(secs) == EntriesUpTo(MaxEntries, {"Hook", "Outro", Undef}, {"draft", ""})
ScriptResponses(secs) ==
  EntriesUpTo(MaxEntries, IdSet(secs) \cup {ForeignId}, {"words", "[pause]", Undef})
PromptResponses(secs) ==
  EntriesUpTo(MaxEntries, IdSet(secs) \cup {ForeignId}, {"prompt a", "prompt b", ""})

DraftCallAny == DraftCallOn(DraftResponses(job.sections))
ScriptCallAny == ScriptCallOn(ScriptResponses(OrFallback(job.sections)))
PromptsCallAny == PromptsCallOn(PromptResponses(OrFallback(job.sections)))

InitText ==
  \E n \in 0..MaxSections, stated \in BOOLEAN :
      /\ db = [NewJob EXCEPT !.sections =
                 [i \in 1..n |-> [PlannedSection(i, Some(60)) EXCEPT
                                    !.title = TitleOf(i),
                                    !.objective = IF stated THEN ObjectiveOf(i) ELSE Undef]]]
      /\ job = db
      /\ pc = "draft_status"
      /\ cpc = "returned"
      /\ returned = NewJob
      /\ timer = "fired"
      /\ data = <<>>
      /\ sections = <<>>
      /\ idx = 0
      /\ exc = NoErr
      /\ cancelPc = "idle"
      /\ statusLog = <<"planning">>
      /\ finished = 1
      /\ raised = NoRaise
      /\ calls = 1
      /\ callsAtReturn = [calls |-> 0, log |-> <<>>, row |-> NewJob]
      /\ cancelled = FALSE
      /\ clipRun = NoClipRun

NextText ==
  \/ DraftStatus \/ DraftCallAny \/ DraftPersist
  \/ ScriptStatus \/ ScriptCallAny \/ ScriptPersist
  \/ PromptsStatus \/ PromptsEntities \/ PromptsCallAny \/ PromptsPersist
  \/ Catch \/ CallbackCatch

SpecText == InitText /\ [][NextText]_vars

\* ------------------------------------------------------------- the stitch stage alone
\* stitch started on a stored job: sections with a target or none, a clip or
\* none, and the captions the caption stage stored.

StitchTargets == {None, Some(0), Some(3), Some(30), Some(77)}
\* no captions; an empty track; a track that ends at 0.8 s, at 1.2 s, at 12.4 s
CaptionTracks ==
  {Undef, <<>>, <<[text |-> "hi", start |-> 0, end |-> 8]>>,
   <<[text |-> "hi", start |-> 0, end |-> 12]>>,
   <<[text |-> "hi", start |-> 0, end |-> 30], [text |-> "there", start |-> 40, end |-> 124]>>}

InitStitch ==
  \E n \in 1..MaxClipSections, caps \in CaptionTracks :
    \E ts \in [1..n -> StitchTargets], ps \in [1..n -> {"clip", "failed"}] :
      /\ db = [NewJob EXCEPT !.status = "captions", !.voiceover_url = "audio_url",
                             !.captions = caps,
                             !.sections = [i \in 1..n |-> PresetSection(i, ts[i], ps[i])]]
      /\ job = db
      /\ pc = "st_status"
      /\ cpc = "returned"
      /\ returned = NewJob
      /\ timer = "fired"
      /\ data = <<>>
      /\ sections = <<>>
      /\ idx = 0
      /\ exc = NoErr
      /\ cancelPc = "idle"
      /\ statusLog = <<>>
      /\ finished = 0
      /\ raised = NoRaise
      /\ calls = 0
      /\ callsAtReturn = [calls |-> 0, log |-> <<>>, row |-> NewJob]
      /\ cancelled = FALSE
      /\ clipRun = NoClipRun

NextStitch == StStatus \/ StCall \/ StPersist \/ Complete \/ Catch \/ CallbackCatch

SpecStitch == InitStitch /\ [][NextStitch]_vars

\* ------------------------------------------------------------- insertJob alone
\* insertJob of lib/video/store.ts, which the orchestrator imports, and the
\* insertJob of the repository's second copy of the store (part_011).

StoreCopies == {"store.ts", "part_011"}
\* job.script_model and job.video_model as createVideoJob builds them
ChosenModels == {Undef, "gpt-5-mini", "other_model"}
\* what the client answers to an insert: no error; an error whose message
\* names the script_model or the video_model column; any other error
InsertOutcomes == {"ok", "names_script_model", "names_video_model", "other_error"}
\* /script_model|video_model/i.test(error.message)
NamesModelColumn(o) == o \in {"names_script_model", "names_video_model"}

\* the row each copy sends: store.ts lists neither model column, part_011
\* lists both, and its retry deletes both
Payload(copy, j) ==
  IF copy = "store.ts" THEN [status |-> j.status]
  ELSE [status |-> j.status, script_model |-> j.script_model, video_model |-> j.video_model]
Fallback(payload) == [status |-> payload.status]

InitInsert ==
  /\ \E copy \in StoreCopies, sm \in ChosenModels, vm \in ChosenModels :
       data = [copy |-> copy,
               job |-> [status |-> "planning", script_model |-> sm, video_model |-> vm],
               sent |-> <<>>, answers |-> <<>>]
  /\ pc = "ins_client"
  /\ db = NoRow
  /\ cpc = "start"
  /\ returned = NoRow
  /\ timer = "unset"
  /\ job = NoRow
  /\ sections = <<>>
  /\ idx = 0
  /\ exc = NoErr
  /\ cancelPc = "idle"
  /\ statusLog = <<>>
  /\ finished = 0
  /\ raised = NoRaise
  /\ calls = 0
  /\ callsAtReturn = [calls |-> -1, log |-> <<>>, row |-> NoRow]
  /\ cancelled = FALSE
  /\ clipRun = NoClipRun

InsertFrameVars == <<cpc, returned, timer, job, sections, idx, cancelPc, statusLog,
                     finished, raised, calls, callsAtReturn, cancelled, clipRun>>

\* const supabase = await createClient(): it answers or throws
InsertClient ==
  /\ pc = "ins_client"
  /\ \/ pc' = "ins_first" /\ UNCHANGED exc
     \/ pc' = "ins_thrown" /\ exc' = Err("client_error")
  /\ UNCHANGED <<db, data, InsertFrameVars>>

\* await supabase.from('video_jobs').insert(payload).  store.ts drops the
\* answer; part_011 reads its error: one that names a model column leads to
\* the retry, any other is thrown
InsertFirst ==
  /\ pc = "ins_first"
  /\ \E o \in InsertOutcomes :
       LET payload == Payload(data.copy, data.job) IN
       /\ data' = [data EXCEPT !.sent = Append(@, payload), !.answers = Append(@, o)]
       /\ db' = IF o = "ok" THEN payload ELSE db
       /\ IF o = "ok" \/ data.copy = "store.ts"
            THEN pc' = "ins_returned" /\ UNCHANGED exc
            ELSE IF NamesModelColumn(o)
            THEN pc' = "ins_retry" /\ UNCHANGED exc
            ELSE pc' = "ins_thrown" /\ exc' \in StoreErrors
  /\ UNCHANGED InsertFrameVars

\* part_011: the insert of the payload without the two model fields;
\* error = retry.error ?? null, thrown when there is one
InsertRetry ==
  /\ pc = "ins_retry"
  /\ \E o \in InsertOutcomes :
       LET payload == Fallback(Payload(data.copy, data.job)) IN
       /\ data' = [data EXCEPT !.sent = Append(@, payload), !.answers = Append(@, o)]
       /\ db' = IF o = "ok" THEN payload ELSE db
       /\ IF o = "ok"
            THEN pc' = "ins_returned" /\ UNCHANGED exc
            ELSE pc' = "ins_thrown" /\ exc' \in StoreErrors
  /\ UNCHANGED InsertFrameVars

NextInsert == InsertClient \/ InsertFirst \/ InsertRetry

SpecInsert == InitInsert /\ [][NextInsert]_vars

\* ------------------------------------------------------------- the clip generator's call
\* generateVideoClip alone: the token check, the one try on a selected
\* alternative model, and the retry loop.

DefaultModel == "wan-video/wan-2.2-t2v-fast"
\* the models the regular expressions of lines 167-169 recognise
AlternativeModels == {"bytedance/seedance-1-lite", "minimax/hailuo-02", "kwaivgi/kling-v2.1"}
\* params.modelId: none, the default, an alternative, or any other text
ModelIds == {Undef, DefaultModel, "other_model"} \cup AlternativeModels
\* const maxAttempts = 3
ClipMaxAttempts == 3
\* what replicate.run comes to: a URL (as a string, in a list, in an object),
\* null or undefined, an empty list, an exception
RunOutcomes == {"url", "nothing", "empty_list", "throws"}

\* the branch of an alternative model returns a URL and throws on anything else
AlternativeReturns(o) == o = "url"
\* the loop returns the string, or output[0] of any list, and throws on the rest
LoopReturns(o) == o \in {"url", "empty_list"}
LoopValue(o) == IF o = "url" THEN "new_url" ELSE Undef
LoopError(o) ==
  IF o = "nothing" THEN Err("Empty replicate output") ELSE Err("replicate_error")

InitGV ==
  /\ \E token \in BOOLEAN, id \in ModelIds :
       data = [token |-> token, modelId |-> id, model |-> Undef, attempt |-> 0,
               made |-> <<>>, result |-> Undef]
  /\ pc = "gv_start"
  /\ db = NoRow
  /\ cpc = "start"
  /\ returned = NoRow
  /\ timer = "unset"
  /\ job = NoRow
  /\ sections = <<>>
  /\ idx = 0
  /\ exc = NoErr
  /\ cancelPc = "idle"
  /\ statusLog = <<>>
  /\ finished = 0
  /\ raised = NoRaise
  /\ calls = 0
  /\ callsAtReturn = [calls |-> -1, log |-> <<>>, row |-> NoRow]
  /\ cancelled = FALSE
  /\ clipRun = NoClipRun

GVFrameVars == <<db, cpc, returned, timer, job, sections, idx, cancelPc, statusLog,
                 finished, raised, callsAtReturn, cancelled, clipRun>>

\* the token check and let model = params.modelId || default
GVStart ==
  /\ pc = "gv_start"
  /\ IF ~data.token
       THEN /\ pc' = "gv_thrown"
            /\ exc' = Err("Missing REPLICATE_API_TOKEN")
            /\ UNCHANGED data
       ELSE LET model == IF data.modelId = Undef THEN DefaultModel ELSE data.modelId IN
            /\ data' = [data EXCEPT !.model = model, !.attempt = 1]
            /\ pc' = IF model \in AlternativeModels THEN "gv_alternative" ELSE "gv_loop"
            /\ UNCHANGED exc
  /\ UNCHANGED <<calls, GVFrameVars>>

\* the try of a seedance, hailuo or kling model: one run; its catch sets the
\* default model and falls through to the loop
GVAlternative ==
  /\ pc = "gv_alternative"
  /\ calls' = calls + 1
  /\ \E o \in RunOutcomes :
       LET made == Append(data.made, [model |-> data.model, outcome |-> o,
                                      ok |-> AlternativeReturns(o)]) IN
       IF AlternativeReturns(o)
         THEN /\ data' = [data EXCEPT !.made = made, !.result = "new_url"]
              /\ pc' = "gv_returned"
         ELSE /\ data' = [data EXCEPT !.made = made, !.model = DefaultModel]
              /\ pc' = "gv_loop"
  /\ UNCHANGED <<exc, GVFrameVars>>

\* one pass of for (attempt = 1; attempt <= limit; attempt++): the run; a
\* return, or the catch that keeps lastErr and, before the last attempt, waits
GVAttemptUpTo(limit) ==
  /\ pc = "gv_loop"
  /\ calls' = calls + 1
  /\ \E o \in RunOutcomes :
       LET made == Append(data.made, [model |-> data.model, outcome |-> o,
                                      ok |-> LoopReturns(o)]) IN
       IF LoopReturns(o)
         THEN /\ data' = [data EXCEPT !.made = made, !.result = LoopValue(o)]
              /\ pc' = "gv_returned"
              /\ UNCHANGED exc
         ELSE /\ data' = [data EXCEPT !.made = made]
              /\ exc' = LoopError(o)
              /\ pc' = IF data.attempt < limit THEN "gv_delay" ELSE "gv_raise"
  /\ UNCHANGED GVFrameVars

\* a loop with one attempt more
GVAttemptOneMore == GVAttemptUpTo(ClipMaxAttempts + 1)

GVAttempt == GVAttemptUpTo(ClipMaxAttempts)

\* await new Promise(r => setTimeout(r, attempt * 2500)); attempt++
GVDelay ==
  /\ pc = "gv_delay"
  /\ data' = [data EXCEPT !.attempt = @ + 1]
  /\ pc' = "gv_loop"
  /\ UNCHANGED <<exc, calls, GVFrameVars>>

\* throw new Error(lastErr?.message || "Failed to generate video")
GVRaise ==
  /\ pc = "gv_raise"
  /\ pc' = "gv_thrown"
  /\ UNCHANGED <<data, exc, calls, GVFrameVars>>

NextGV == GVStart \/ GVAlternative \/ GVAttempt \/ GVDelay \/ GVRaise

SpecGV == InitGV /\ [][NextGV]_vars

\* ------------------------------------------------------------- the render's status loop
\* processWithShotstack after the render was submitted and its id read: the
\* while (true) loop.  Time is in seconds since `started`.

\* setTimeout(r, 4000)
PollDelay == 4
\* 1000 * 60 * 8 ms
RenderTimeout == 480
\* what a status fetch takes on top of the delay
FetchSeconds == {0, 1}
\* a status request: the fetch throws; a response that is not ok; an ok
\* response with the status done, with a url or without, failed / error /
\* cancelled, or another one (queued, rendering, ...)
PollResponses == {"fetch_throws", "not_ok", "done", "done_no_url", "failed", "rendering"}
PollEnds == {"poll_returned", "poll_thrown"}

InitPoll ==
  /\ data = [elapsed |-> 0, last |-> "none", polls |-> 0, url |-> Undef]
  /\ pc = "poll_sleep"
  /\ db = NoRow
  /\ cpc = "start"
  /\ returned = NoRow
  /\ timer = "unset"
  /\ job = NoRow
  /\ sections = <<>>
  /\ idx = 0
  /\ exc = NoErr
  /\ cancelPc = "idle"
  /\ statusLog = <<>>
  /\ finished = 0
  /\ raised = NoRaise
  /\ calls = 0
  /\ callsAtReturn = [calls |-> -1, log |-> <<>>, row |-> NoRow]
  /\ cancelled = FALSE
  /\ clipRun = NoClipRun

PollFrameVars == <<db, cpc, returned, timer, job, sections, idx, cancelPc, statusLog,
                   finished, raised, calls, callsAtReturn, cancelled, clipRun>>

\* await new Promise(r => setTimeout(r, 4000)) and the time the fetch takes;
\* past the limit the clock's exact value no longer matters
PollSleep ==
  /\ pc = "poll_sleep"
  /\ \E f \in FetchSeconds :
       data' = [data EXCEPT !.elapsed = Min(@ + PollDelay + f, RenderTimeout + 1)]
  /\ pc' = "poll_fetch"
  /\ UNCHANGED <<exc, PollFrameVars>>

\* the status fetch and what the loop does with the response: `continue` on a
\* response that is not ok, return on done, throw on failed, and the timeout
\* check after any other status
PollFetch ==
  /\ pc = "poll_fetch"
  /\ \E r \in PollResponses :
       LET seen == [data EXCEPT !.last = r, !.polls = (@ + 1) % 2] IN
       CASE r = "fetch_throws" ->
              /\ data' = seen /\ pc' = "poll_thrown" /\ exc' = Err("fetch failed")
         [] r = "not_ok" ->
              /\ data' = seen /\ pc' = "poll_sleep" /\ UNCHANGED exc
         [] r \in {"done", "done_no_url"} ->
              /\ data' = [seen EXCEPT !.url = IF r = "done" THEN "shotstack_url" ELSE Undef]
              /\ pc' = "poll_returned" /\ UNCHANGED exc
         [] r = "failed" ->
              /\ data' = seen /\ pc' = "poll_thrown" /\ exc' = Err("Shotstack render failed")
         [] OTHER ->
              /\ data' = seen
              /\ IF data.elapsed > RenderTimeout
                   THEN pc' = "poll_thrown" /\ exc' = Err("Shotstack render timeout")
                   ELSE pc' = "poll_sleep" /\ UNCHANGED exc
  /\ UNCHANGED PollFrameVars

NextPoll == PollSleep \/ PollFetch

SpecPoll == InitPoll /\ [][NextPoll]_vars
\* the event loop runs the timer and the fetch's continuation
FairSpecPoll == SpecPoll /\ WF_vars(NextPoll)

\* ------------------------------------------------------------- a job without a section list
\* runPipeline about to call a stage with the job the stage before it
\* returned, read from a row whose sections value is a list or is not.

StageStarts ==
  {"draft_status", "script_status", "prompts_status", "clips_status",
   "vo_status", "cap_status", "st_status"}

InitStages ==
  \E at \in StageStarts, secs \in {Malformed, <<PresetSection(1, None, "fresh")>>,
                                    <<PresetSection(1, None, "clip")>>} :
      /\ db = [NewJob EXCEPT !.sections = secs,
                             !.voiceover_url = IF at \in {"cap_status", "st_status"}
                                                 THEN "audio_url" ELSE Undef]
      /\ job = IF at \in NormalizedBefore THEN NormalizeJob(db) ELSE db
      /\ pc = at
      /\ cpc = "returned"
      /\ returned = NewJob
      /\ timer = "fired"
      /\ data = <<>>
      /\ sections = <<>>
      /\ idx = 0
      /\ exc = NoErr
      /\ cancelPc = "idle"
      /\ statusLog = <<>>
      /\ finished = 0
      /\ raised = NoRaise
      /\ calls = 0
      /\ callsAtReturn = [calls |-> 0, log |-> <<>>, row |-> NewJob]
      /\ cancelled = FALSE
      /\ clipRun = NoClipRun

NextStages ==
  \/ DraftStatus \/ DraftCall \/ DraftPersist
  \/ ScriptStatus \/ ScriptCall \/ ScriptPersist
  \/ PromptsStatus \/ PromptsEntities \/ PromptsCall \/ PromptsPersist
  \/ ClipsStatus \/ ClipsCall \/ ClipsAnswer \/ ClipsPersist \/ ClipsReturn
  \/ VoStatus \/ VoCall \/ VoPersist
  \/ CapStatus \/ CapCall \/ CapPersist
  \/ StStatus \/ StCall \/ StPersist
  \/ Complete \/ Catch \/ CallbackCatch

SpecStages == InitStages /\ [][NextStages]_vars

\* ------------------------------------------------------------- structuredJSON alone
\* One call of structuredJSON(prompt, schemaName, schema, model), attempt by
\* attempt: `data` holds the call's frame, `pc` its position.

\* const maxAttempts = 3
MaxAttempts == 3
\* the passes (the call and its recursive fallback calls) the model follows
MaxPasses == 3

SJSchemas == {"video_plan", "video_draft", "video_script", "video_entities", "video_prompts"}
\* the schemas with a targeted non-empty-array validation
ArrayChecked(schema) == schema \in {"video_plan", "video_script", "video_prompts"}
\* the chosen model and process.env.OPENAI_FALLBACK_MODEL
SJChosen == {"gpt-5", "gpt-4o-mini"}
SJFallbacks == {Undef, "gpt-5-mini", "gpt-4o"}
\* /^gpt-5/i.test(model)
IsGpt5(m) == m \in {"gpt-5", "gpt-5-mini"}

\* what one chat.completions.create call gives: an exception; a response
\* without content; content that holds no JSON object; content that is a JSON
\* object ("json") or has one inside other text ("wrapped"), with or without
\* the schema's required keys and a non-empty sections / prompts array
SJResponses ==
  {[kind |-> k, keys |-> FALSE, items |-> FALSE] : k \in {"api_error", "empty", "garbage"}}
    \cup {[kind |-> k, keys |-> b, items |-> c] :
            k \in {"json", "wrapped"}, b \in BOOLEAN, c \in BOOLEAN}

\* the required-key loop and the targeted validation of lines 86-106
Validated(schema, r) == r.keys /\ (ArrayChecked(schema) => r.items)

\* an attempt's outcome.  An exception of the API and content without a JSON
\* object fail the attempt.  A response without content is replaced by the
\* JSON text of the whole response object (the salvage of lines 74-79), which
\* then is what JSON.parse gives.  A JSON object that fails the validation
\* throws inside the inner try, whose catch extracts the text from the first
\* { to the last } - the same object - and returns it; so does a wrapped one.
SJOutcome(schema, r) ==
  CASE r.kind = "api_error" -> [ok |-> FALSE, msg |-> "api_error", val |-> r]
    [] r.kind = "garbage" -> [ok |-> FALSE, msg |-> "Invalid JSON", val |-> r]
    [] r.kind = "empty" ->
         [ok |-> TRUE, msg |-> Undef,
          val |-> [kind |-> "envelope", keys |-> FALSE, items |-> FALSE]]
    [] OTHER -> [ok |-> TRUE, msg |-> Undef, val |-> r]

SJFrame(schema, chosen, fallback) ==
  [schema |-> schema, chosen |-> chosen, fallback |-> fallback,
   model |-> chosen, attempt |-> 1, made |-> <<0>>, errs |-> <<NoErr>>,
   seen |-> {}, result |-> Undef]

InitSJ ==
  /\ \E schema \in SJSchemas, chosen \in SJChosen, fallback \in SJFallbacks :
       data = SJFrame(schema, chosen, fallback)
  /\ pc = "sj_call"
  /\ db = NoRow
  /\ cpc = "start"
  /\ returned = NoRow
  /\ timer = "unset"
  /\ job = NoRow
  /\ sections = <<>>
  /\ idx = 0
  /\ exc = NoErr
  /\ cancelPc = "idle"
  /\ statusLog = <<>>
  /\ finished = 0
  /\ raised = NoRaise
  /\ calls = 0
  /\ callsAtReturn = [calls |-> -1, log |-> <<>>, row |-> NoRow]
  /\ cancelled = FALSE
  /\ clipRun = NoClipRun

SJFrameVars == <<db, cpc, returned, timer, job, sections, idx, cancelPc, statusLog,
                 finished, raised, callsAtReturn, cancelled, clipRun>>

\* one pass of the for loop: the request, the parse and the validation; a
\* failure is kept in lastErr and, before the last attempt, followed by the
\* delay and the next attempt
SJAttempt ==
  /\ pc = "sj_call"
  /\ calls' = calls + 1
  /\ \E r \in SJResponses :
       LET out == SJOutcome(data.schema, r)
           n == Len(data.made)
           counted == [data EXCEPT !.made[n] = @ + 1,
                                   !.seen = @ \cup {[kind |-> r.kind,
                                                    valid |-> Validated(data.schema, r)]}]
       IN  IF out.ok
             THEN /\ data' = [counted EXCEPT !.result = out.val]
                  /\ pc' = "sj_returned"
             ELSE /\ data' = [counted EXCEPT !.errs[n] = Err(out.msg),
                                             !.attempt = IF @ < MaxAttempts THEN @ + 1 ELSE @]
                  /\ pc' = IF data.attempt < MaxAttempts THEN "sj_call" ELSE "sj_exhausted"
  /\ UNCHANGED exc
  /\ UNCHANGED SJFrameVars

\* the fallback test of line 129 holds for the model of this pass
SJWantsFallback == IsGpt5(data.model) /\ data.fallback # Undef

\* return await structuredJSON(prompt, schemaName, schema, fallback): the
\* same function again, with the fallback model as its chosen model
SJFallback ==
  /\ pc = "sj_exhausted"
  /\ SJWantsFallback
  /\ Len(data.made) < MaxPasses
  /\ data' = [data EXCEPT !.model = data.fallback, !.attempt = 1,
                          !.made = Append(@, 0), !.errs = Append(@, NoErr)]
  /\ pc' = "sj_call"
  /\ UNCHANGED <<calls, exc>>
  /\ UNCHANGED SJFrameVars

\* throw lastErr || new Error("structuredJSON failed"): the innermost call
\* throws, each caller's catch logs and throws its own lastErr, so the first
\* call's lastErr is what comes out
SJRaise ==
  /\ pc = "sj_exhausted"
  /\ ~SJWantsFallback
  /\ exc' = data.errs[1]
  /\ pc' = "sj_raised"
  /\ UNCHANGED <<data, calls>>
  /\ UNCHANGED SJFrameVars

NextSJ == SJAttempt \/ SJFallback \/ SJRaise

SpecSJ == InitSJ /\ [][NextSJ]_vars

\* ------------------------------------------------------------- the caption stage alone
\* generateCaptions of ai-services.ts from the transcription result on, and
\* the caption stage's filter and update.  Times are in hundredths of a
\* second.  `data` holds the words heard, the merge options and the captions.

\* the largest number of words of a transcription result
MaxHeard == 3
\* merged.slice(0, 180)
MaxCaptions == 180

\* the distance of a word's start from the previous word's end: overlapping,
\* adjacent, exactly the gap option of the code, just above it
WordGaps == {-20, 0, 55, 56}
\* a word's own length: none, short, long
WordSpans == {0, 30, 200}
WordTexts == <<"hi", "there", "friend", "again", "more", "words">>

\* the words of a transcription result with gaps g, lengths d and an empty
\* text on word e (no word when e = 0)
RECURSIVE BuildWords(_, _, _, _)
BuildWords(g, d, e, n) ==
  IF n = 0 THEN <<>>
  ELSE LET before == BuildWords(g, d, e, n - 1)
           s == (IF n = 1 THEN 20 ELSE before[n - 1].end) + g[n]
       IN  Append(before, [start |-> s, end |-> s + d[n],
                           word |-> IF e = n THEN "" ELSE WordTexts[n]])

\* three words, the third 3.4 s after the second
ScenarioWords ==
  <<[start |-> 0, end |-> 30, word |-> "hi"],
    [start |-> 30, end |-> 60, word |-> "there"],
    [start |-> 400, end |-> 430, word |-> "friend"]>>

\* a transcription result of n segments without word-level data, with gaps g
\* and lengths d
CoarseSegments(g, d, n) ==
  LET built == BuildWords(g, d, 0, n)
  IN  [i \in 1..n |-> [start |-> built[i].start, end |-> built[i].end, text |-> built[i].word]]

\* segments.flatMap(...) on segments without words: each segment is one word
\* { start: seg.start, end: seg.end, word: String(seg.text || "").trim() }
SegmentWords(segs) ==
  [i \in 1..Len(segs) |-> [start |-> segs[i].start, end |-> segs[i].end, word |-> segs[i].text]]

\* the options generateCaptions passes, and two smaller ones that let the
\* word limit and the duration limit act on a few words
CodeOpts == [maxWords |-> 7, maxDuration |-> 280, gap |-> 55]
MergeOpts ==
  {CodeOpts, [maxWords |-> 2, maxDuration |-> 280, gap |-> 55],
   [maxWords |-> 3, maxDuration |-> 60, gap |-> 55]}

\* rawWords: .filter(w => typeof w.start === "number" && ... && w.word)
RawWords(heard) == SelectSeq(heard, LAMBDA w : w.word # "")

\* bucket.map(b => b.word).join(" ")
RECURSIVE JoinWords(_)
JoinWords(bucket) ==
  IF Len(bucket) = 1 THEN bucket[1].word
  ELSE JoinWords(SubSeq(bucket, 1, Len(bucket) - 1)) \o " " \o bucket[Len(bucket)].word

\* a segment with the bounds exchanged
EmitExchanged(bucket) ==
  [text |-> JoinWords(bucket), start |-> bucket[Len(bucket)].end, end |-> bucket[1].start]

\* out.push({ text, start: bucket[0].start, end: bucket[bucket.length - 1].end })
Emit(bucket) ==
  [text |-> JoinWords(bucket), start |-> bucket[1].start, end |-> bucket[Len(bucket)].end]

\* a test that lets one word more into the bucket
BucketClosesLate(bucket, w, opts) ==
  \/ Len(bucket) > opts.maxWords
  \/ bucket[Len(bucket)].end - bucket[1].start >= opts.maxDuration
  \/ w.start - bucket[Len(bucket)].end > opts.gap

\* bucket.length >= maxWords || bucketDuration >= maxDuration || gap > opts.gap
BucketCloses(bucket, w, opts) ==
  \/ Len(bucket) >= opts.maxWords
  \/ bucket[Len(bucket)].end - bucket[1].start >= opts.maxDuration
  \/ w.start - bucket[Len(bucket)].end > opts.gap

\* the for loop of mergeWords from word i on, and the flush after it
RECURSIVE MergeLoop(_, _, _, _, _)
MergeLoop(words, opts, i, bucket, out) ==
  IF i > Len(words)
    THEN IF bucket # <<>> THEN Append(out, Emit(bucket)) ELSE out
  ELSE IF bucket = <<>>
    THEN MergeLoop(words, opts, i + 1, <<words[i]>>, out)
  ELSE IF BucketCloses(bucket, words[i], opts)
    THEN MergeLoop(words, opts, i + 1, <<words[i]>>, Append(out, Emit(bucket)))
  ELSE MergeLoop(words, opts, i + 1, Append(bucket, words[i]), out)

MergeWords(words, opts) == MergeLoop(words, opts, 1, <<>>, <<>>)

\* mergeWords(rawWords, opts).filter(s => s.text), merged.slice(0, 180)
WhisperCaptions(heard, opts) ==
  LET merged == SelectSeq(MergeWords(RawWords(heard), opts), LAMBDA c : c.text # "")
  IN  SubSeq(merged, 1, Min(Len(merged), MaxCaptions))

\* the caption stage's filter: numbers and a text
SanityFilter(caps) == SelectSeq(caps, LAMBDA c : c.text # "")

InitCaptions ==
  /\ \/ \E n \in 0..MaxHeard :
          \E g \in [1..n -> WordGaps], d \in [1..n -> WordSpans], e \in 0..Min(n, 1), o \in MergeOpts :
            data = [words |-> BuildWords(g, d, e, n), opts |-> o, out |-> <<>>, coarse |-> <<>>]
     \/ data = [words |-> ScenarioWords, opts |-> CodeOpts, out |-> <<>>, coarse |-> <<>>]
     \/ \E n \in 1..MaxHeard :
          \E g \in [1..n -> WordGaps], d \in [1..n -> WordSpans] :
            LET segs == CoarseSegments(g, d, n)
            IN  data = [words |-> SegmentWords(segs), opts |-> CodeOpts, out |-> <<>>, coarse |-> segs]
  /\ db = [NewJob EXCEPT !.status = "captions", !.voiceover_url = "audio_url",
                         !.voice_id = "voice"]
  /\ job = db
  /\ pc = "cap_heard"
  /\ cpc = "returned"
  /\ returned = NewJob
  /\ timer = "fired"
  /\ sections = <<>>
  /\ idx = 0
  /\ exc = NoErr
  /\ cancelPc = "idle"
  /\ statusLog = <<>>
  /\ finished = 0
  /\ raised = NoRaise
  /\ calls = 1
  /\ callsAtReturn = [calls |-> 0, log |-> <<>>, row |-> NewJob]
  /\ cancelled = FALSE
  /\ clipRun = NoClipRun

\* generateCaptions of ai-services.ts after the transcription call
MergeCaptions ==
  /\ pc = "cap_heard"
  /\ data' = [data EXCEPT !.out = WhisperCaptions(data.words, data.opts)]
  /\ pc' = "cap_filter"
  /\ UNCHANGED <<db, job, exc, statusLog, finished, raised, calls, clipVars>>
  /\ PipelineFrame

\* the filter and return await updateJob(job.id, { captions: filtered })
CapStore ==
  /\ pc = "cap_filter"
  /\ UpdateOrThrow("generateCaptions", [captions |-> SanityFilter(data.out)], "st_status")
  /\ job' = IF pc' = "st_status" THEN db' ELSE job
  /\ finished' = IF pc' = "st_status" THEN finished + 1 ELSE finished
  /\ UNCHANGED <<data, statusLog, calls, clipVars>>
  /\ PipelineFrame

NextCaptions == MergeCaptions \/ CapStore

SpecCaptions == InitCaptions /\ [][NextCaptions]_vars

\* ------------------------------------------------------------- properties
Last(s) == s[Len(s)]
IsPrefix(s, t) == Len(s) <= Len(t) /\ \A i \in 1..Len(s) : s[i] = t[i]
Stages == {"plan", "draft", "script", "prompts", "generateClips",
           "generateVoiceover", "generateCaptions", "stitch"}
\* the pipeline task has ended and no cancel is half-way
Quiescent == pc \in {"done", "rejected"} /\ cancelPc = "idle"
\* the status history without a final error
WithoutError(log) ==
  IF log # <<>> /\ Last(log) = "error" THEN SubSeq(log, 1, Len(log) - 1) ELSE log

\* C1: the statuses the orchestrator persists are, in order and without
\* repeats, a prefix of planning .. complete, optionally followed by error,
\* and the k-th of them is persisted only when k - 1 stages have returned.
C1_StatusSequence ==
  /\ IsPrefix(WithoutError(statusLog), PipelineOrder)
  /\ Len(WithoutError(statusLog)) <= finished + 1

\* C1 witness: a run through every stage to complete
C1_Witness == statusLog = PipelineOrder /\ finished = 8

\* C2: when a stage raised an error with message m, the job ends with
\* status error and error = m.
C2_StageErrorPersisted ==
  (Quiescent /\ raised.stage \in Stages /\ pc = "done" /\ ~cancelled)
    => (db.status = "error" /\ db.error = raised.err.msg)

\* C2, second half: once a stage has raised, no stage status is persisted
\* (only error) and no external generation call is made.
C2_NoWorkAfterRaise ==
  [][raised # NoRaise =>
       /\ calls' = calls
       /\ statusLog' # statusLog => Last(statusLog') = "error"]_vars

\* C3: when createVideoJob returns, the job is in the store, no stage status
\* has been persisted, no generation call has been made, and the value
\* returned is the job as built, whatever the pipeline does later.
C3_ReturnsAfterInsert ==
  cpc = "returned" =>
    /\ callsAtReturn.row = NewJob
    /\ callsAtReturn.calls = 0
    /\ callsAtReturn.log = <<NewJob.status>>
    /\ returned = NewJob

\* C3 without the insert: the order of the return and the pipeline
C3_ReturnsBeforePipeline ==
  cpc = "returned" =>
    /\ callsAtReturn.calls = 0
    /\ Len(callsAtReturn.log) <= 1
    /\ returned = NewJob

\* the orchestrator has made no store update yet
BeforeFirstUpdate == db # NoRow /\ pc \in {"idle", "get_job", "plan_status"}

ReachedEnd == \E i \in 1..Len(statusLog) : statusLog[i] \in {"complete", "error"}

\* C5: every job whose pipeline task starts eventually has complete or error
\* persisted, given that every call returns or raises.
C5_EventuallyCompleteOrError == (pc = "get_job") ~> ReachedEnd

\* C5, of the task's end alone: when the pipeline task has ended (every call
\* returned or raised), complete or error has been persisted.
C5_EndsCompleteOrError == pc \in {"done", "rejected"} => ReachedEnd

\* what does hold: a pipeline task that starts ends or is caught retrying a
\* structuredJSON call for ever, and one that ends without an unhandled
\* rejection has persisted complete or error
TaskEndsOrRetriesForever ==
  /\ (pc = "get_job") ~> (pc \in {"done", "rejected", "retrying_forever"})
  /\ [](pc = "done" => ReachedEnd)

\* a status's place in the pipeline; error and cancelled come last
Rank(status) ==
  IF \E i \in 1..Len(PipelineOrder) : PipelineOrder[i] = status
    THEN CHOOSE i \in 1..Len(PipelineOrder) : PipelineOrder[i] = status
    ELSE Len(PipelineOrder) + 1

InClipLoop == pc \in {"clips_call", "clips_await", "clips_persist", "clips_return"}
\* the sections that had a clip when the stage started
HadClip == {i \in DOMAIN clipRun.start : clipRun.start[i].clip_url # Undef}
\* the clip fields of section i are as they were when the stage started
ClipKept(secs, i) ==
  /\ i \in DOMAIN secs
  /\ secs[i].clip_url = clipRun.start[i].clip_url
  /\ secs[i].clip_id = clipRun.start[i].clip_id

\* C7: the stage never calls the generator for a section that already has a
\* clip_url and leaves its clip_id and clip_url as they are, in the stage's
\* own sections and in the store; a run on a job whose sections all have a
\* clip (so a second run after one in which every section got its clip) makes
\* no generator call.
C7_ClipSkipped ==
  /\ \A i \in HadClip :
       /\ i \notin clipRun.called
       /\ InClipLoop => ClipKept(sections, i)
       /\ (clipRun.start # <<>> /\ db # NoRow) => ClipKept(db.sections, i)
  /\ (clipRun.start # <<>> /\ HadClip = DOMAIN clipRun.start) => clipRun.attempts = 0

\* C7 witness: the second run has returned; the first run generated a clip
\* for every section that lacked one
C7_Witness ==
  /\ clipRun.run = 2 /\ pc = "stage_returned"
  /\ HadClip = DOMAIN clipRun.start
  /\ \E i \in HadClip : clipRun.start[i].clip_url = "new_url"
  /\ \E i \in HadClip : clipRun.start[i].clip_url = "old_url"
  /\ clipRun.attempts = 0

\* the sections that had no clip when the stage started
Pending == DOMAIN clipRun.start \ HadClip

\* C8: a generator failure puts its message in the section's clip_error and
\* does not make the stage raise (only a store call does); the stage goes on
\* to every remaining section without a clip, returns, and the pipeline's
\* next step is the Voiceover stage's status update.
C8_ClipFailureNotFatal ==
  /\ (pc = "clips_persist" /\ clipRun.last.kind = "throw") =>
       sections[idx].clip_error = clipRun.last.val
  /\ raised.stage = "generateClips" => raised.err \in StoreErrors
  /\ (pc \in {"clips_return", "vo_status"}) => clipRun.called = Pending
  /\ (finished = 5 /\ raised = NoRaise) =>
       (pc = "vo_status" \/ Last(statusLog) \in {"voiceover"})

\* C8 witness: the first section's generation failed, the second's succeeded,
\* and the pipeline stands at the Voiceover stage
C8_Witness ==
  /\ pc = "vo_status"
  /\ Len(job.sections) = 2
  /\ job.sections[1].clip_error = "replicate_error"
  /\ job.sections[2].clip_url = "new_url"

\* C9: the job is persisted once after every attempted section, success or
\* failure, before the next generator call: at every generator call the
\* store holds the result of each earlier attempt.
C9_PersistedAfterEachSection ==
  /\ clipRun.persists <= clipRun.attempts
  /\ clipRun.attempts <= clipRun.persists + 1
  /\ pc \in {"clips_call", "clips_return"} =>
       /\ clipRun.attempts = clipRun.persists
       /\ \A i \in clipRun.called : db.sections[i] = sections[i]
  /\ pc = "clips_persist" => clipRun.attempts = clipRun.persists + 1

\* C9 witness: the second section is about to be generated and the store
\* shows the first section's failure
C9_Witness ==
  /\ pc = "clips_call" /\ idx = 2
  /\ db.sections[1].clip_error = "replicate_error"
  /\ db.sections[2].clip_url = Undef

\* C10: whatever the section's target_seconds, the duration passed to the
\* generator is within 2..12 s and the frame count sent to the default model
\* within 81..121.
C10_DurationClamped ==
  /\ \A d \in clipRun.durations : 20 <= d /\ d <= 120
  /\ \A f \in clipRun.frames : 81 <= f /\ f <= 121

\* C10 witness: a very large target was sent as 12 s and 121 frames
C10_Witness ==
  /\ clipRun.start # <<>> /\ clipRun.start[1].target_seconds = Some(1000000)
  /\ 120 \in clipRun.durations
  /\ 121 \in clipRun.frames

\* a structuredJSON call is under way or has ended
InSJ == pc \in {"sj_call", "sj_exhausted", "sj_returned", "sj_raised"}

\* C11: a structuredJSON call whose every attempt fails makes exactly
\* maxAttempts attempts on the chosen model, one more pass of maxAttempts
\* attempts on the fallback model whenever one is configured, whatever the
\* chosen model is, and no pass after that; then it raises.
C11_RetryBound ==
  InSJ =>
    /\ Len(data.made) <= 2
    /\ pc = "sj_raised" =>
         data.made = IF data.fallback # Undef
                       THEN <<MaxAttempts, MaxAttempts>> ELSE <<MaxAttempts>>

\* what does hold of the attempts: every pass that failed made exactly
\* maxAttempts attempts; a pass is followed by a pass on the fallback model
\* exactly when its own model is a gpt-5 model and a fallback is configured;
\* the error raised is the last error of the first pass
PassesOfThree ==
  InSJ =>
    /\ \A i \in 1..Len(data.made) :
         data.made[i] <= MaxAttempts /\ (i < Len(data.made) => data.made[i] = MaxAttempts)
    /\ Len(data.made) > 1 => (IsGpt5(data.chosen) /\ data.fallback # Undef)
    /\ Len(data.made) > 2 => IsGpt5(data.fallback)
    /\ pc = "sj_raised" =>
         /\ data.made[Len(data.made)] = MaxAttempts
         /\ ~(IsGpt5(data.model) /\ data.fallback # Undef)
         /\ exc = data.errs[1]

\* C12: structuredJSON returns an object only if it has every required key
\* and, for video_plan, video_script and video_prompts, a non-empty array; a
\* response that fails these checks is a failed attempt, never returned.
C12_ReturnsOnlyValidated ==
  pc = "sj_returned" => Validated(data.schema, data.result)

\* ---- the caption stage
\* the words handed to mergeWords and their merge has been made
Merged == pc \in {"cap_filter", "st_status"} /\ data # <<>>
HeardWords == RawWords(data.words)

\* the lowest and the highest number of a non-empty set
Lowest(S) == CHOOSE x \in S : \A y \in S : x <= y
Highest(S) == CHOOSE x \in S : \A y \in S : y <= x

\* the greedy bucketing, stated on the places where a bucket ends: the bucket
\* that holds word i starts after the last such place before i
BucketStart(B, i) == 1 + Highest({b \in B : b < i} \cup {0})
\* the bucket of words s..i is closed by the word after it
ClosedBy(W, o, s, i) ==
  \/ i - s + 1 >= o.maxWords
  \/ W[i].end - W[s].start >= o.maxDuration
  \/ W[i + 1].start - W[i].end > o.gap
GreedyEnds(W, o) ==
  CHOOSE B \in SUBSET (1..(Len(W) - 1)) :
    \A i \in 1..(Len(W) - 1) : i \in B <=> ClosedBy(W, o, BucketStart(B, i), i)
\* the buckets, in order, as first and last word
RECURSIVE BucketsFrom(_, _, _)
BucketsFrom(B, n, s) ==
  IF s > n THEN <<>>
  ELSE LET l == IF \E b \in B : b >= s THEN Lowest({b \in B : b >= s}) ELSE n
       IN  <<[first |-> s, last |-> l]>> \o BucketsFrom(B, n, l + 1)
GreedyBuckets == BucketsFrom(GreedyEnds(HeardWords, data.opts), Len(HeardWords), 1)
\* the words f..l with one space between two
RECURSIVE Spaced(_, _, _)
Spaced(W, f, l) == IF f = l THEN W[f].word ELSE W[f].word \o " " \o Spaced(W, f + 1, l)
SegmentOf(W, b) ==
  [text |-> Spaced(W, b.first, b.last), start |-> W[b.first].start, end |-> W[b.last].end]

\* C13: every segment mergeWords emits spans at most maxDuration, unless it
\* is a single word whose own span exceeds maxDuration.
C13_SegmentWithinMaxDuration ==
  Merged =>
    \A k \in 1..Len(data.out) :
      \/ data.out[k].end - data.out[k].start <= data.opts.maxDuration
      \/ /\ k <= Len(GreedyBuckets)
         /\ GreedyBuckets[k].first = GreedyBuckets[k].last

\* what does hold of a segment's span: without its last word a segment of
\* several words spans less than maxDuration
SpanBeforeLastWord ==
  Merged =>
    \A k \in 1..Len(GreedyBuckets) :
      LET b == GreedyBuckets[k] IN
      b.first < b.last =>
        HeardWords[b.last - 1].end - HeardWords[b.first].start < data.opts.maxDuration

\* each caption ends after it starts, and starts neither before the start nor
\* before the end of the one before it
WellOrdered(caps) ==
  \A k \in 1..Len(caps) :
    /\ caps[k].end > caps[k].start
    /\ k > 1 => (caps[k].start >= caps[k - 1].start /\ caps[k].start >= caps[k - 1].end)

\* C14: for every transcription result the captions the stage stores have
\* end > start, are ordered by start and do not overlap.
C14_CaptionsOrdered == (Merged /\ pc = "st_status") => WellOrdered(db.captions)

\* C14 as amended: the captions the stage stores have end > start, are
\* ordered by start and do not overlap whenever the transcription's words
\* are so: each word ends after it starts and no word starts before the word
\* before it has ended.
C14_CaptionsOrderedIfWordsAre ==
  (Merged /\ pc = "st_status" /\ WellOrdered(HeardWords)) => WellOrdered(db.captions)

\* C14 witness: such a transcription, merged into several stored captions
C14_Witness ==
  /\ Merged /\ pc = "st_status"
  /\ WellOrdered(HeardWords)
  /\ Len(db.captions) >= 2
  /\ \E k \in 1..Len(db.captions) : db.captions[k].end - db.captions[k].start > 200

\* C15: mergeWords emits exactly the greedy buckets: a word closes the bucket
\* before it iff the bucket has maxWords words, or spans at least maxDuration,
\* or the word starts more than maxGap after the bucket's end; each bucket
\* is emitted as its first start, its last end and its words with one space
\* between; so a segment has at most maxWords words and no gap above maxGap.
C15_GreedyBucketing ==
  Merged =>
    /\ data.out = [k \in 1..Len(GreedyBuckets) |-> SegmentOf(HeardWords, GreedyBuckets[k])]
    /\ \A k \in 1..Len(GreedyBuckets) :
         LET b == GreedyBuckets[k] IN
         /\ b.last - b.first + 1 <= data.opts.maxWords
         /\ \A i \in b.first..(b.last - 1) :
              HeardWords[i + 1].start - HeardWords[i].end <= data.opts.gap
    /\ data.words = ScenarioWords =>
         data.out = <<[text |-> "hi there", start |-> 0, end |-> 60],
                      [text |-> "friend", start |-> 400, end |-> 430]>>

\* C15 witness: the three words of the scenario, merged
C15_Witness ==
  /\ Merged /\ data.words = ScenarioWords /\ Len(data.out) = 2

\* C15 witness of the word limit: a bucket closed by its third word
WordLimitReached ==
  /\ Merged /\ data.opts.maxWords = 2 /\ Len(HeardWords) = 3
  /\ GreedyBuckets = <<[first |-> 1, last |-> 2], [first |-> 3, last |-> 3]>>
  /\ HeardWords[3].start - HeardWords[2].end <= data.opts.gap

\* ---- the fallback section
\* the job the stage at pc works on has no sections
NoSections == job # NoRow /\ job.sections = <<>>

\* C16: when planning produced no sections, nothing but a store error makes
\* the draft stage or the script stage's status update raise; the draft
\* stage returns at once, the script stage persists scripting and its call
\* continues with exactly one section, the synthesized one titled Intro,
\* which is what it persists.
C16_FallbackIntro ==
  [][/\ (NoSections /\ pc = "draft_status") =>
          \/ pc' \in {"draft_status", "script_status"}
          \/ pc' = "catch" /\ exc' \in StoreErrors
     /\ (NoSections /\ pc = "script_status") =>
          \/ pc' = "script_status"
          \/ pc' = "script_call" /\ Last(statusLog') = "scripting"
          \/ pc' = "catch" /\ exc' \in StoreErrors
     /\ (NoSections /\ pc = "script_call" /\ pc' # pc) =>
          /\ job'.sections = <<FallbackSection(1)>>
          /\ pc' = "script_persist" =>
               /\ Len(data'.sections) = 1
               /\ data'.sections[1].title = "Intro"
               /\ data'.sections[1].id = FallbackSection(1).id
     /\ (pc = "script_persist" /\ pc' = "prompts_status") => db'.sections = data.sections]_vars

\* C16 witness: planning stored no sections, the job is scripting and the
\* script stage's call has come back for the one Intro section
C16_Witness ==
  /\ pc = "script_persist"
  /\ db.sections = <<>> /\ db.status = "scripting"
  /\ Len(data.sections) = 1 /\ data.sections[1].title = "Intro"

\* ---- clip and error
\* no section of secs has both a clip and an error
ClipXorError(secs) ==
  \A i \in DOMAIN secs : secs[i].clip_url = Undef \/ secs[i].clip_error = Undef

\* C17: no stored section has both clip_url and clip_error; a generation
\* that succeeded leaves no clip_error on its section, and a failure is
\* recorded only on a section without a clip_url.
C17_ClipXorError ==
  /\ db # NoRow => ClipXorError(db.sections)
  /\ ClipXorError(sections)
  /\ pc = "clips_persist" =>
       IF clipRun.last.kind = "url"
         THEN sections[idx].clip_error = Undef
         ELSE sections[idx].clip_url = Undef /\ clipRun.start[idx].clip_url = Undef

\* C17 witness: a section stored with an earlier error now has a clip and no
\* error in the store
C17_Witness ==
  /\ db # NoRow
  /\ \E i \in DOMAIN clipRun.start \cap DOMAIN db.sections :
       /\ clipRun.start[i].clip_error = "old_error"
       /\ db.sections[i].clip_url = "new_url"
       /\ db.sections[i].clip_error = Undef

\* ---- missing prerequisites
\* the stage at pc lacks what it needs
LacksClips == pc = "st_call" /\ ClipUrls(job.sections) = <<>>
LacksVoiceover == pc = "cap_call" /\ job.voiceover_url = Undef
PrerequisiteErrors ==
  {Err("No clips generated to stitch"), Err("Voiceover must be generated before captions")}

\* C18: a stitch stage that starts without any clip_url, and a caption stage
\* that starts without a voiceover_url, raise without a call of the compositor
\* or the transcriber; from then on complete is never persisted, and when the
\* pipeline task has ended with its error update accepted, error is the last
\* status the orchestrator persisted and the stored status (unless a cancel
\* action wrote cancelled over it).
C18_MissingPrerequisiteFatal ==
  /\ [][(LacksClips \/ LacksVoiceover) =>
          \/ pc' = pc
          \/ /\ pc' = "catch"
             /\ calls' = calls
             /\ exc' = IF LacksClips THEN Err("No clips generated to stitch")
                       ELSE Err("Voiceover must be generated before captions")]_vars
  /\ [](raised.err \in PrerequisiteErrors =>
          /\ \A i \in 1..Len(statusLog) : statusLog[i] # "complete"
          /\ pc \notin {"cap_persist", "st_persist", "complete"}
          /\ pc = "done" =>
               /\ Last(statusLog) = "error"
               /\ db.status = "error" \/ cancelled)

\* C18 witness: the caption stage started without a voiceover_url and the job
\* has ended in error
C18_Witness ==
  /\ pc = "done" /\ raised.stage = "generateCaptions"
  /\ raised.err = Err("Voiceover must be generated before captions")
  /\ db.status = "error" /\ calls = 0

\* the stitch stage's case: no clip, and the job has ended in error
StitchWithoutClips ==
  /\ pc = "done" /\ raised.stage = "stitch"
  /\ raised.err = Err("No clips generated to stitch")
  /\ db.status = "error"

\* ---- cancellation during a run
\* C19: the orchestrator's status updates do not look at the stored status: a
\* status the orchestrator persists while the stored status is cancelled
\* replaces it, so a job that was cancelled can later stand at a pipeline stage
\* or at complete.
C19_CancelledOverwritten ==
  [][(db # NoRow /\ db.status = "cancelled" /\ Len(statusLog') > Len(statusLog)) =>
       /\ db'.status = Last(statusLog')
       /\ db'.status # "cancelled"]_vars

\* C19 witness: the job was cancelled during a stage and its stored status is
\* complete
C19_Witness == cancelled /\ pc = "done" /\ db.status = "complete"

\* the same with a stage status: cancelled before stitching, now stitching
CancelledThenStitching == cancelled /\ db.status = "stitching"

\* ---- the compositor
\* the stitch stage at its compositor call, with clips to stitch
Stitching == pc = "st_call" /\ ClipUrls(job.sections) # <<>>

\* C20 as stated: no failure of a compositor alone puts the job in error
C20_CompositorFailureNotFatal == raised.err # Err("Failed to process video")

\* C20: a failure of the primary compositor alone never puts the job in error.
\* When the primary compositor fails or has no key, the alternate endpoint is
\* called if one is configured; with none configured, or with an answer that
\* carries no video reference, the first clip's reference is what the stage
\* stores as the job's video, and the next step of the run is the complete
\* update.  The stage raises "Failed to process video" exactly when a
\* configured alternate endpoint fails.
C20_PrimaryFailureNotFatal ==
  /\ [][(Stitching /\ pc' # pc) =>
          /\ data'.primary \in {"ok", "ok_no_url"} =>
               /\ data'.alternate = "not_tried"
               /\ data'.url = RenderedUrl(data'.primary)
          /\ data'.primary \notin {"ok", "ok_no_url"} =>
               /\ data'.alternate # "not_tried"
               /\ data'.alternate \in {"unset", "no_url"} => data'.url = ClipUrls(job.sections)[1]
               /\ data'.alternate = "url" => data'.url = "processor_url"
          /\ IF data'.alternate = "failed"
               THEN pc' = "catch" /\ exc' = Err("Failed to process video")
               ELSE pc' = "st_persist" /\ exc' = exc]_vars
  /\ [][(pc = "st_persist" /\ pc' = "complete") => db'.video_url = data.url]_vars
  /\ [](pc \in {"st_persist", "complete"} => raised = NoRaise)

\* C20 witness: the primary compositor failed, no alternate endpoint is
\* configured, and the job is complete with its first clip as its video
C20_Witness ==
  /\ pc = "done" /\ db.status = "complete"
  /\ data.primary = "failed" /\ data.alternate = "unset"
  /\ db.video_url = ClipUrls(db.sections)[1]

\* the run that ends in error: the primary compositor failed and so did the
\* configured alternate endpoint
AlternateFailedFatal ==
  /\ pc = "done" /\ db.status = "error"
  /\ raised = [stage |-> "stitch", err |-> Err("Failed to process video")]


\* ---- the voiceover stage
\* the keyword categories in the order of priority, and the persona of each
Categories == <<"energetic", "calm", "storyteller", "investigative", "casual">>
PersonaOf(cat) == IF cat = "investigative" THEN "calm" ELSE cat
\* the categories (by their place in the order) that match a text
Matching(text) == {i \in 1..Len(Categories) : PatternMatches(Categories[i], text)}
\* the persona of the earliest matching category, professional without one
FirstPersona(text) ==
  IF Matching(text) = {} THEN "professional"
  ELSE PersonaOf(Categories[Lowest(Matching(text))])

\* C21: the persona handed to the synthesizer and stored as voice_id is the
\* persona of the first category, in the order energetic, calm, storyteller,
\* investigative (which gives calm), casual, whose keywords match the idea
\* followed by the sections' titles and objectives, and professional when no
\* category matches.
C21_FirstMatchingPersona ==
  /\ [](pc = "vo_persist" => data.voice = FirstPersona(VoiceText(job)))
  /\ [][(pc = "vo_persist" /\ pc' = "cap_status") =>
          db'.voice_id = FirstPersona(VoiceText(job))]_vars

\* C21 witness: a text that matches investigative ("deep dive", across the
\* idea and a title or a title and an objective) and casual got calm
C21_Witness ==
  /\ pc = "cap_status" /\ db.voiceover_url = "audio_url"
  /\ Matching(VoiceText(db)) = {4, 5}
  /\ db.voice_id = "calm"

\* a text that matches energetic only in upper case
UpperCaseMatches ==
  /\ pc = "cap_status" /\ db.voice_id = "energetic"
  /\ \E i \in 1..Len(db.sections) : "Hype" \in {db.sections[i].title, db.sections[i].objective}

\* C22: a voiceover stage whose sections' scripts are all empty raises "Empty
\* script cannot generate voiceover" without a call of the synthesizer; from
\* then on no voiceover_url is stored and complete is never persisted, and
\* when the pipeline task has ended with its error update accepted, error is
\* the last status the orchestrator persisted and the stored status (unless a
\* cancel action wrote cancelled over it).
C22_EmptyScriptFatal ==
  /\ [][(pc = "vo_call" /\ EmptyScript(job.sections)) =>
          \/ pc' = pc
          \/ /\ pc' = "catch"
             /\ calls' = calls
             /\ exc' = Err("Empty script cannot generate voiceover")]_vars
  /\ [](raised.err = Err("Empty script cannot generate voiceover") =>
          /\ db.voiceover_url = Undef
          /\ \A i \in 1..Len(statusLog) : statusLog[i] # "complete"
          /\ pc \notin {"vo_persist", "cap_status", "complete"}
          /\ pc = "done" =>
               /\ Last(statusLog) = "error"
               /\ db.status = "error" \/ cancelled)

\* C22 witness: a job with sections, none of them with a script, ended in
\* error before any call of the synthesizer
C22_Witness ==
  /\ pc = "done" /\ db.status = "error"
  /\ db.error = "Empty script cannot generate voiceover"
  /\ db.sections # <<>> /\ db.voiceover_url = Undef
  /\ raised.stage = "generateVoiceover" /\ calls = 0

\* the sections that have a clip
WithClip(secs) == SelectSeq(secs, LAMBDA sec : sec.clip_url # Undef)

\* C23 as stated: the narration handed to the synthesizer is made of the
\* scripts of the sections that have a clip
C23_NarrationOfSucceededClips ==
  pc = "vo_persist" => data.narration = Narration(WithClip(job.sections))

\* what the code does: every section's script is voiced, with or without a clip
NarrationOfAllSections ==
  pc = "vo_persist" =>
    data.narration = [i \in 1..Len(job.sections) |-> job.sections[i].id]
                       \/ \E i \in 1..Len(job.sections) : job.sections[i].script \in {Undef, ""}


\* ---- the order of the generator calls
\* C24: the generator is called for the sections in section order and one at
\* a time: at most one call is in flight, a call is made only when no call is
\* in flight, the section of each call lies after the section of every
\* earlier call of the run, and no section is called twice in a run.
C24_ClipsSequential ==
  /\ [](Cardinality(clipRun.inflight) <= 1)
  /\ [](\A i, j \in 1..Len(clipRun.order) : i < j => clipRun.order[i] < clipRun.order[j])
  /\ [](pc = "clips_await" <=> clipRun.inflight # {})
  /\ [](pc = "clips_await" => clipRun.inflight = {idx} /\ Last(clipRun.order) = idx)
  /\ [][Len(clipRun.order') > Len(clipRun.order) => clipRun.inflight = {}]_vars

\* C24 witness: the call for the second section is in flight after the call
\* for the first one was answered and its result stored
C24_Witness ==
  /\ pc = "clips_await" /\ clipRun.order = <<1, 2>> /\ clipRun.inflight = {2}
  /\ db.sections[1].clip_url = "new_url"


\* ---- the text stages and the section list
\* the section list the text stages persist
PersistsSections == pc \in {"draft_persist", "script_persist", "prompts_persist"}

\* C25: once the job has a non-empty section list, every section list the
\* draft, script, prompts and clip stages persist has the ids of that list in
\* the same order, and what the job holds after each of these stages has them
\* too.
C25_SectionIdentityKept ==
  [][(job # NoRow /\ job.sections # <<>> /\ job' # NoRow) =>
       /\ Ids(job'.sections) = Ids(job.sections)
       /\ (db # NoRow /\ db' # NoRow /\ db.sections # <<>>) => Ids(db'.sections) = Ids(db.sections)
       /\ (PersistsSections /\ pc' \notin {pc, "catch"}) => Ids(db'.sections) = Ids(job.sections)
       /\ (pc = "clips_persist" /\ pc' \notin {pc, "catch"}) => Ids(db'.sections) = Ids(job.sections)]_vars

\* C25 witness: the prompts stage has stored its sections after a script
\* response and a prompt response that named the sections in another order
\* and named an id no section has
C25_Witness ==
  /\ pc = "clips_status" /\ Len(db.sections) = 2
  /\ Ids(db.sections) = <<1, 2>>
  /\ db.sections[1].shot_prompt = "prompt b" /\ db.sections[2].shot_prompt = "prompt a"
  /\ db.sections[1].script = "words" /\ db.sections[2].script = "second goal"


\* ---- the prompts stage
\* the places of a response's entries for an id
EntriesFor(r, id) == {k \in 1..Len(r) : r[k].key = id}
\* the prompt made from a section's own objective
FallbackPrompt(sec) == "Cinematic shot related to: " \o sec.objective

\* C26 as stated: each section's shot_prompt is a prompt the response gives
\* for the section's id, and the fallback only when the response has no entry
\* for that id
C26_PromptOfOwnIdOrAbsent ==
  pc = "prompts_persist" =>
    \A i \in 1..Len(data.sections) :
      LET sec == data.sections[i]
          own == EntriesFor(data.response, sec.id)
      IN  IF own = {} THEN sec.shot_prompt = FallbackPrompt(sec)
          ELSE sec.shot_prompt \in {data.response[k].text : k \in own}

\* C26: after the prompts stage every section has a non-empty shot_prompt:
\* the prompt of the response's last entry for the section's own id, or, when
\* the response has no entry for that id or that entry's prompt is empty, the
\* fallback made from the section's own objective; an entry for another id or
\* at the section's position has no part in it.  The stage stores the
\* sections so prompted.
C26_PromptOfOwnId ==
  /\ [](pc = "prompts_persist" =>
          \A i \in 1..Len(data.sections) :
            LET sec == data.sections[i]
                own == EntriesFor(data.response, sec.id)
            IN  /\ sec.shot_prompt \notin {Undef, ""}
                /\ sec = [job.sections[i] EXCEPT !.shot_prompt = sec.shot_prompt]
                /\ IF own = {} \/ data.response[Highest(own)].text = ""
                     THEN sec.shot_prompt = FallbackPrompt(job.sections[i])
                     ELSE sec.shot_prompt = data.response[Highest(own)].text)
  /\ [][(pc = "prompts_persist" /\ pc' = "clips_status") => db'.sections = data.sections]_vars

\* C26 witness: the response's first entry is for the second section and its
\* second entry for an id no section has: the first section has the fallback
\* of its own objective, the second the prompt of its own entry
C26_Witness ==
  /\ pc = "prompts_persist"
  /\ data.response = <<[key |-> 2, text |-> "prompt a"], [key |-> ForeignId, text |-> "prompt b"]>>
  /\ Len(data.sections) = 2
  /\ data.sections[1].shot_prompt = "Cinematic shot related to: first goal"
  /\ data.sections[2].shot_prompt = "prompt a"

\* an entry with an empty prompt gives the fallback too
EmptyPromptFallsBack ==
  /\ pc = "prompts_persist"
  /\ data.response = <<[key |-> 1, text |-> ""]>>
  /\ data.sections[1].shot_prompt = "Cinematic shot related to: first goal"


\* ---- the consistency call
\* C27 as stated: whatever the entity call comes to, the prompts stage goes on
\* to its per-scene prompt call (with the generic style when the call gave no
\* entities), unless the call never comes back at all.
C27_EntityCallNeverFatal ==
  [][(pc = "prompts_entities" /\ pc' # pc) =>
       \/ pc' = "retrying_forever"
       \/ /\ pc' = "prompts_call"
          /\ data'.entities # "entities" => data'.style = "generic"]_vars

\* what holds: the entity call is made once, after the script stage has
\* returned and before the prompt call, and a failure that structuredJSON
\* raises is caught and gives the generic style
EntityCallOnceAndCaught ==
  /\ [][(pc = "prompts_entities" /\ pc' # pc) =>
          /\ calls' = calls + 1
          /\ Last(statusLog) = "prompting" \/ cancelled
          /\ (pc' # "retrying_forever" /\ data'.entities = "failed") =>
               (pc' = "prompts_call" /\ data'.style = "generic")]_vars
  /\ [][(pc' = "prompts_entities" /\ pc # pc') => pc = "prompts_status"]_vars

\* the prompts stage raised on what the entity call returned
EntitiesMisshapenFatal ==
  /\ pc = "done" /\ db.status = "error"
  /\ db.error = "entities.characters.map is not a function"
  /\ raised.stage = "prompts"


\* ---- a sections value that is not a list
\* the error of calling .map on a sections value that is not a list
SectionsDereferenced == Err("job.sections.map is not a function")

NormalizedBeforeTextAndClips ==
  /\ pc \in NormalizedBefore => job.sections # Malformed
  /\ raised.err = SectionsDereferenced => raised.stage \in {"generateVoiceover", "stitch"}

\* the clip stage, given a row without a list, returns it as it is and the
\* voiceover stage raises on it
VoiceoverFailsOnSections ==
  /\ pc = "done" /\ db.status = "error" /\ db.sections = Malformed
  /\ raised = [stage |-> "generateVoiceover", err |-> SectionsDereferenced]
  /\ Len(statusLog) > 2


\* ---- coarse segments
\* C29 as stated: a transcription of coarse segments only gives one caption
\* per segment, with the segment's start, end and text, in order
C29_CoarsePassedThrough ==
  (Merged /\ data.coarse # <<>>) =>
    data.out = [i \in 1..Len(data.coarse) |->
                  [text |-> data.coarse[i].text, start |-> data.coarse[i].start,
                   end |-> data.coarse[i].end]]

\* what the code does: the coarse segments are the words of the merge
CoarseMergedAsWords ==
  (Merged /\ data.coarse # <<>>) =>
    /\ data.words = SegmentWords(data.coarse)
    /\ data.out = [k \in 1..Len(GreedyBuckets) |-> SegmentOf(HeardWords, GreedyBuckets[k])]

\* two coarse segments in one caption
CoarseSegmentsJoined ==
  /\ Merged /\ Len(data.coarse) = 2 /\ Len(data.out) = 1
  /\ data.out[1].text = "hi there"


\* ---- the timeline
\* the compositor has been handed a timeline
OnTimeline == pc \in {"st_persist", "complete", "done"} /\ data # <<>> /\ data.timeline # <<>>
\* the sections of the job the clips come from, in order
ClipSections(secs) == SelectSeq([i \in 1..Len(secs) |-> i], LAMBDA i : secs[i].clip_url # Undef)

\* C30 as stated: stitch supplies per-section durations, so every clip lies on
\* the timeline for the duration of its own section
C30_TimelineFromTargets ==
  OnTimeline =>
    \A i \in 1..Len(data.timeline) :
      data.timeline[i].num =
        data.timeline[i].den * data.durations[ClipSections(db.sections)[i]]

\* what the code does: the supplied durations are not read; every clip gets
\* the caption time split evenly, or 6 s, and never less than 0.75 s
TimelineIgnoresDurations ==
  OnTimeline =>
    LET n == Len(data.timeline)
        last == LastCaptionEnd(db.captions)
    IN  /\ n = Len(ClipUrls(db.sections))
        /\ Len(data.durations) = Len(db.sections)
        /\ \A i \in 1..n :
             data.timeline[i] = IF last <= 10 THEN [num |-> 60, den |-> 1]
                                ELSE IF 2 * last < 15 * n THEN [num |-> 15, den |-> 2]
                                ELSE [num |-> last, den |-> n]

\* a section of 3 s whose clip lies on the timeline for 12.4 s
TargetNotOnTimeline ==
  /\ OnTimeline /\ Len(db.sections) = 1
  /\ data.durations = <<30>> /\ data.timeline = <<[num |-> 124, den |-> 1]>>


\* ---- the render's status loop
PollEnded == pc \in PollEnds

\* C31 as stated: whatever the status requests answer, the loop ends: with
\* the video's URL, with an error, or with the timeout
C31_PollingTerminates == <>PollEnded

\* what the code does: the loop ends if responses that are ok keep coming
PollingEndsWhenAnswered == ([]<>(data.last # "not_ok")) => <>PollEnded

\* the timeout is raised only on a response that is ok, and only past the limit
TimeoutOnlyWhenAnswered ==
  (pc = "poll_thrown" /\ exc = Err("Shotstack render timeout")) =>
    (data.last = "rendering" /\ data.elapsed > RenderTimeout)

\* past the 8 minutes, a response that is not ok, and the loop goes on
PollingPastTimeout ==
  pc = "poll_sleep" /\ data.elapsed > RenderTimeout /\ data.last = "not_ok"


\* ---- the clip generator's retries
\* the remote calls made on model m
CallsOn(m) == Cardinality({i \in 1..Len(data.made) : data.made[i].model = m})
\* the calls of the retry loop: all but the one of an alternative's branch
LoopCalls ==
  {i \in 1..Len(data.made) : ~(i = 1 /\ data.modelId \in AlternativeModels)}
InGV == pc \in {"gv_alternative", "gv_loop", "gv_delay", "gv_raise", "gv_returned", "gv_thrown"}

\* the retries, whatever model the loop runs: at most one call on an
\* alternative, at most 3 in the loop, a return on the first call that
\* succeeds, a raise only when every call of the loop has failed
RetriedUntilExhausted ==
  /\ Len(data.made) <= ClipMaxAttempts + 1
  /\ Cardinality(LoopCalls) <= ClipMaxAttempts
  /\ \A i \in 1..Len(data.made) : data.made[i].ok => (pc = "gv_returned" /\ i = Len(data.made))
  /\ pc = "gv_returned" => (data.made # <<>> /\ data.made[Len(data.made)].ok)
  /\ (pc \in {"gv_raise", "gv_thrown"} /\ data.token) =>
       /\ Cardinality(LoopCalls) = ClipMaxAttempts
       /\ \A i \in 1..Len(data.made) : ~data.made[i].ok
  /\ (pc = "gv_thrown" /\ ~data.token) => data.made = <<>>

\* C32 as stated: the calls of the loop are calls of the default model
C32_RetriedOnDefaultModel ==
  InGV => /\ RetriedUntilExhausted
          /\ \A i \in LoopCalls : data.made[i].model = DefaultModel

\* C32: the loop runs the default model, or the selected one when that is
\* not one of the alternatives that get a try of their own
C32_RetriedUntilExhausted ==
  InGV => /\ RetriedUntilExhausted
          /\ \A i \in LoopCalls :
               data.made[i].model =
                 IF data.modelId = Undef \/ data.modelId \in AlternativeModels
                   THEN DefaultModel ELSE data.modelId

\* an alternative failed, the default failed twice and then answered
C32_Witness ==
  /\ pc = "gv_returned" /\ Len(data.made) = 4
  /\ data.made[1].model \in AlternativeModels
  /\ data.result = "new_url"

\* four failures, and the raise
RetriesExhausted ==
  /\ pc = "gv_thrown" /\ Len(data.made) = 4 /\ exc = Err("replicate_error")


\* ---- insertJob
InsertEnded == pc \in {"ins_returned", "ins_thrown"}

\* a failed insert raises; an error that names a model column is followed by
\* one retry without the two model fields, whose answer decides
InsertChecked ==
  /\ pc = "ins_returned" <=> db # NoRow
  /\ Len(data.sent) <= 2
  /\ Len(data.sent) = 2 <=> (data.answers # <<>> /\ NamesModelColumn(data.answers[1]))
  /\ Len(data.sent) = 2 => data.sent[2] = Fallback(data.sent[1])
  /\ pc = "ins_thrown" => exc.msg \in {"store_error", "client_error"}

\* C33 as stated: insertJob raises when the insert fails, but for the one
\* retry after an error that names the script_model or video_model column
C33_InsertFailureRaises == InsertEnded => InsertChecked

\* the copy of the store with the error check does what C33 says
InsertCheckedByCopy == (InsertEnded /\ data.copy = "part_011") => InsertChecked

\* store.ts: one insert, whose answer is dropped; only the client's own
\* exception is raised
InsertAnswerDropped ==
  (InsertEnded /\ data.copy = "store.ts") =>
    /\ Len(data.sent) <= 1
    /\ pc = "ins_thrown" <=> data.sent = <<>>
    /\ \A i \in 1..Len(data.sent) : data.sent[i] = [status |-> "planning"]

\* insertJob has returned and there is no row
InsertFailureUnnoticed ==
  /\ pc = "ins_returned" /\ db = NoRow /\ data.answers = <<"other_error">>

\* the retry made the row, without the models the job was created with
InsertRetrySucceeded ==
  /\ pc = "ins_returned" /\ Len(data.sent) = 2 /\ db = [status |-> "planning"]
  /\ data.job.video_model = "other_model"


\* ---- the cancel action and a finished job
\* C34 as stated: the cancel action's write never lands on a job whose stored
\* status is complete, error or cancelled
C34_FinishedNeverCancelled == [][CancelWrite => ~CancelRefused(db.status)]_vars

\* the pipeline stored complete between the action's read and its write, and
\* the job is stored as cancelled
CompleteThenCancelled ==
  /\ pc = "done" /\ statusLog[Len(statusLog)] = "complete"
  /\ cancelled /\ db.status = "cancelled" /\ db.video_url # Undef


\* ---- the generator calls of one structuredJSON call
\* C35 as stated: a structuredJSON call makes at most 6 generator calls, the
\* 3 attempts of its own pass and the 3 of one fallback pass
C35_AtMostSixCalls == calls <= 2 * MaxAttempts

\* what bounds the calls: a call whose pass model or fallback model is not a
\* gpt-5 model ends within two passes
BoundedUnlessBothGpt5 ==
  (~IsGpt5(data.chosen) \/ data.fallback = Undef \/ ~IsGpt5(data.fallback)) =>
    (calls <= 2 * MaxAttempts /\ Len(data.made) <= 2)

\* a third pass has begun: the fallback pass failed 3 times and fell back on
\* the fallback model again
ThirdPassStarted ==
  /\ calls = 2 * MaxAttempts + 1 /\ Len(data.made) = 3
  /\ data.chosen = "gpt-5" /\ data.model = "gpt-5-mini"


\* ---- the sections the clip stage returns
\* a section with a clip or with an error, not both, and with a clip_id
\* exactly when it has a clip
ClipOrError(sec) ==
  /\ (sec.clip_url # Undef) # (sec.clip_error # Undef)
  /\ (sec.clip_id # Undef) <=> (sec.clip_url # Undef)
\* a section the generator returned nothing for: an id, no clip, no error
ClipWithoutUrl(sec) ==
  sec.clip_id = "new_id" /\ sec.clip_url = Undef /\ sec.clip_error = Undef

\* C36 as stated: the job the clip stage returns has, on every section, a
\* clip or an error and not both, and a clip_id exactly with a clip
C36_ClipOrErrorOnReturn ==
  pc = "stage_returned" => \A i \in 1..Len(job.sections) : ClipOrError(job.sections[i])

\* what the code does: never both, a clip_id with every clip, and neither
\* clip nor error only on a section whose call returned no URL; the clip_id
\* of such a call stays when a later run's call fails
ClipOrErrorOrNoUrl ==
  pc = "stage_returned" =>
    \A i \in 1..Len(job.sections) :
      LET sec == job.sections[i] IN
      /\ ~(sec.clip_url # Undef /\ sec.clip_error # Undef)
      /\ sec.clip_url # Undef => sec.clip_id # Undef
      /\ (sec.clip_url = Undef /\ sec.clip_error = Undef) => ClipWithoutUrl(sec)

\* the stage has returned a section with a clip_id and neither clip nor error
ReturnedWithoutUrl ==
  /\ pc = "stage_returned"
  /\ \E i \in 1..Len(job.sections) : ClipWithoutUrl(job.sections[i])


\* ---- what a complete job holds
\* C37 as stated: a job stored as complete has a video_url, a voiceover_url,
\* a captions list and at least one section with a clip_url
C37_CompleteJobHasOutputs ==
  (db # NoRow /\ db.status = "complete") =>
    /\ db.video_url # Undef
    /\ db.voiceover_url # Undef
    /\ db.captions # Undef
    /\ ClipUrls(db.sections) # <<>>

\* what the code does: all of that but the video_url, which is missing
\* exactly when the render's last status answer carried no url
CompleteJobHasInputs ==
  (db # NoRow /\ db.status = "complete") =>
    /\ db.voiceover_url # Undef
    /\ db.captions # Undef
    /\ ClipUrls(db.sections) # <<>>
    /\ db.video_url = data.url
    /\ db.video_url = Undef <=> data.primary = "ok_no_url"

\* a job stored as complete without a video_url
CompleteWithoutVideo ==
  /\ pc = "done" /\ db.status = "complete" /\ db.video_url = Undef
  /\ data.primary = "ok_no_url"


\* ---- the durations stitch passes
\* stitch has called processAndCombineVideos
Composited == pc \in {"st_persist", "complete"} /\ data # <<>>

\* C38 as stated: one duration per clip, the i-th that of the section the
\* i-th clip comes from
C38_DurationsAlignedWithClips ==
  Composited =>
    /\ Len(data.durations) = Len(ClipUrls(db.sections))
    /\ \A i \in 1..Len(data.durations) :
         data.durations[i] = StitchDurations(db.sections)[ClipSections(db.sections)[i]]

\* what the code does: one duration per section, the i-th that of the i-th
\* section; as many as clips when every section has a clip
DurationsPerSection ==
  Composited =>
    /\ data.durations = StitchDurations(db.sections)
    /\ Len(data.durations) >= Len(ClipUrls(db.sections))
    /\ (\A i \in 1..Len(db.sections) : db.sections[i].clip_url # Undef) =>
         Len(data.durations) = Len(ClipUrls(db.sections))

\* two sections of 3 s and 7.7 s, a clip only for the second: two durations
\* for one clip, and the first is not the clip's
DurationsOutnumberClips ==
  /\ Composited /\ data.durations = <<30, 77>>
  /\ Len(ClipUrls(db.sections)) = 1 /\ db.sections[2].clip_url # Undef


\* ---- the pipeline task and the insert
\* C39 as stated: a pipeline task is scheduled only for a job whose row was
\* inserted, and createVideoJob raises instead when the insert fails
C39_TaskOnlyForInsertedJob ==
  /\ timer # "unset" => callsAtReturn.row # NoRow
  /\ cpc = "raised" => (timer = "unset" /\ db = NoRow)

\* what the code does: createVideoJob raises only when insertJob does, a
\* raise schedules nothing, and the one timer is armed once and fires once
TaskStartedOnce ==
  /\ [](cpc = "raised" => (timer = "unset" /\ db = NoRow /\ pc = "idle"))
  /\ [][timer' # timer =>
          \/ timer = "unset" /\ timer' = "armed" /\ cpc = "inserted" /\ cpc' = "returned"
          \/ timer = "armed" /\ timer' = "fired" /\ pc = "idle" /\ pc' = "get_job"]_vars
  /\ [][pc = "idle" /\ pc' # "idle" => timer = "armed"]_vars

\* the insert was refused, createVideoJob returned, and the task has started
\* on a job that is not in the store
TaskWithoutRow ==
  /\ cpc = "returned" /\ timer = "fired" /\ db = NoRow /\ pc = "get_job"


\* the pipeline task, once started, keeps running: each of its steps is a
\* call that returns or raises
FairSpec == Spec /\ WF_vars(PipelineStep)

====
